---- MODULE Spec2Model ----
(***************************************************************************)
(* tabmd: conversion of Markdown / HTML tables into an editable table      *)
(* model with bounded undo/redo history.  The repository holds two copies  *)
(* of the application, src/dist/js/app.js and src/unnamed/part_001; the    *)
(* variable copy says which of the two is running.                         *)
(*                                                                         *)
(* A JavaScript string is a sequence of characters; a character is a       *)
(* one-character TLA+ string, or the name "U+XXXX" of its code point when  *)
(* it is not ASCII.                                                        *)
(***************************************************************************)
EXTENDS Integers, Sequences, FiniteSets, TLC

VARIABLES
  copy,           \* which copy of the application runs
  headers,        \* TableState.headers
  rows,           \* TableState.rows
  alignments,     \* TableState.alignments
  isReorderMode,  \* TableState.isReorderMode
  outputFormat,   \* TableState.outputFormat
  history,        \* TableState.history
  historyIndex,   \* TableState.historyIndex (0-based, -1 when empty)
  notification,   \* text last passed to showNotification ("" before the first)
  inputText,      \* elements.inputTextArea.value
  debounceTimer,  \* TRUE while the timer of debounce(parseTable, 300) is armed
  pendingParse,   \* inputs captured by setTimeout callbacks of parseTable
  pc,             \* position of the scenario driver
  arg,            \* value handed to the function under study
  ret,            \* what it returned
  editCount,      \* saveToHistory() calls since construction
  undoCalls       \* undo() calls since the last saveToHistory()

model == <<headers, rows, alignments>>
hist  == <<history, historyIndex>>
ui    == <<inputText, debounceTimer, pendingParse>>
obs   == <<pc, arg, ret, editCount, undoCalls>>
vars  == <<copy, headers, rows, alignments, isReorderMode, outputFormat,
           history, historyIndex, notification, inputText, debounceTimer,
           pendingParse, pc, arg, ret, editCount, undoCalls>>

DIST == "dist/js/app.js"
PART1 == "unnamed/part_001"
Copies == {DIST, PART1}

(***************************************************************************)
(* Constants of the application                                            *)
(***************************************************************************)
FORMAT == [MARKDOWN |-> "markdown", JSON |-> "json", HTML |-> "html"]
ALIGN == [CENTER |-> "center", RIGHT |-> "right", LEFT |-> "left"]
HistoryLimit == 50

(***************************************************************************)
(* Strings                                                                 *)
(***************************************************************************)
\* white space and line terminators: what trim() removes and \s matches
WhiteSpace == {" ", "\t", "\n", "\r", "\f", "U+00A0", "U+FEFF"}

RECURSIVE TrimStart(_)
TrimStart(s) ==
  IF s # <<>> /\ Head(s) \in WhiteSpace THEN TrimStart(Tail(s)) ELSE s

RECURSIVE TrimEnd(_)
TrimEnd(s) ==
  IF s # <<>> /\ s[Len(s)] \in WhiteSpace
    THEN TrimEnd(SubSeq(s, 1, Len(s) - 1)) ELSE s

\* String.prototype.trim
trim(s) == TrimEnd(TrimStart(s))

UpperToLower ==
  [A |-> "a", B |-> "b", C |-> "c", D |-> "d", E |-> "e", F |-> "f",
   G |-> "g", H |-> "h", I |-> "i", J |-> "j", K |-> "k", L |-> "l",
   M |-> "m", N |-> "n", O |-> "o", P |-> "p", Q |-> "q", R |-> "r",
   S |-> "s", T |-> "t", U |-> "u", V |-> "v", W |-> "w", X |-> "x",
   Y |-> "y", Z |-> "z"]

\* String.prototype.toLowerCase
toLowerCase(s) ==
  [i \in 1..Len(s) |->
     IF s[i] \in DOMAIN UpperToLower THEN UpperToLower[s[i]] ELSE s[i]]

RECURSIVE Concat(_)
Concat(ss) == IF ss = <<>> THEN <<>> ELSE Head(ss) \o Concat(Tail(ss))

\* String.prototype.replace(/c/g, by) for a single character c
RECURSIVE replaceAll(_, _, _)
replaceAll(s, c, by) ==
  IF s = <<>> THEN <<>>
  ELSE (IF Head(s) = c THEN by ELSE <<Head(s)>>) \o replaceAll(Tail(s), c, by)

escapeHtml_NoQuotes(str) ==
  replaceAll(replaceAll(replaceAll(str,
      "&", <<"&", "a", "m", "p", ";">>),
      "<", <<"&", "l", "t", ";">>),
      ">", <<"&", "g", "t", ";">>)

\* escapeHtml: the five replacements run in this order, "&" first
escapeHtml(str) ==
  replaceAll(replaceAll(replaceAll(replaceAll(replaceAll(str,
      "&", <<"&", "a", "m", "p", ";">>),
      "<", <<"&", "l", "t", ";">>),
      ">", <<"&", "g", "t", ";">>),
      "\"", <<"&", "q", "u", "o", "t", ";">>),
      "'", <<"&", "#", "3", "9", ";">>)

(***************************************************************************)
(* Value normalizer                                                        *)
(***************************************************************************)
CHECK == <<"U+2705">>
CROSS == <<"U+274C">>
CheckSymbols ==
  {<<"U+2705">>, <<"U+2714", "U+FE0F">>, <<"U+2714">>, <<"U+2713">>}
CrossSymbols ==
  {<<"U+274C">>, <<"U+2716", "U+FE0F">>, <<"U+2716">>, <<"U+2717">>,
   <<"U+00D7">>}

CheckedTokens(c) ==
  IF c = DIST
    THEN {<<"y", "e", "s">>, <<"t", "r", "u", "e">>, <<"y">>}
    ELSE {<<"y", "e", "s">>, <<"t", "r", "u", "e">>, <<"1">>, <<"y">>}

UncheckedTokens_WithY(c) ==
  IF c = DIST
    THEN {<<"n", "o">>, <<"f", "a", "l", "s", "e">>, <<"n">>, <<"y">>}
    ELSE {<<"n", "o">>, <<"f", "a", "l", "s", "e">>, <<"0">>, <<"n">>, <<"y">>}

UncheckedTokens(c) ==
  IF c = DIST
    THEN {<<"n", "o">>, <<"f", "a", "l", "s", "e">>, <<"n">>}
    ELSE {<<"n", "o">>, <<"f", "a", "l", "s", "e">>, <<"0">>, <<"n">>}

isChecked(c, value) ==
  LET val == trim(value)
      lower == toLowerCase(val)
  IN  lower \in CheckedTokens(c) \/ val \in CheckSymbols

isUnchecked(c, value) ==
  LET val == trim(value)
      lower == toLowerCase(val)
  IN  lower \in UncheckedTokens(c) \/ val \in CrossSymbols

normalizeCheckValue_Swapped(c, value) ==
  IF isChecked(c, value) THEN CROSS
  ELSE IF isUnchecked(c, value) THEN CHECK
  ELSE value

normalizeCheckValue(c, value) ==
  IF isChecked(c, value) THEN CHECK
  ELSE IF isUnchecked(c, value) THEN CROSS
  ELSE value

(***************************************************************************)
(* Arrays                                                                  *)
(***************************************************************************)
Min(a, b) == IF a < b THEN a ELSE b
Max(a, b) == IF a > b THEN a ELSE b

\* Array.prototype.splice(start, deleteCount, ...items) on a 0-based array
splice(arr, start, deleteCount, items) ==
  LET len == Len(arr)
      s == IF start < 0 THEN Max(len + start, 0) ELSE Min(start, len)
      d == Min(Max(deleteCount, 0), len - s)
  IN  SubSeq(arr, 1, s) \o items \o SubSeq(arr, s + d + 1, len)

\* new Array(n).fill('')
emptyRow(n) == [i \in 1..n |-> <<>>]

(***************************************************************************)
(* TableState                                                              *)
(***************************************************************************)
snapshot == [headers |-> headers, rows |-> rows, alignments |-> alignments]

saveToHistory_NoShift ==
  [history |-> Append(SubSeq(history, 1, historyIndex + 1), snapshot),
   historyIndex |-> historyIndex + 1]

\* the history and cursor left by TableState.saveToHistory()
saveToHistory ==
  LET pushed == Append(SubSeq(history, 1, historyIndex + 1), snapshot)
  IN  IF Len(pushed) > HistoryLimit
        THEN [history |-> Tail(pushed), historyIndex |-> historyIndex]
        ELSE [history |-> pushed, historyIndex |-> historyIndex + 1]

\* the identities of the arrays of the snapshot saveToHistory() builds from
\* the arrays live of the model: [...this.headers], this.rows.map(row =>
\* [...row]) and [...this.alignments] are rowCount + 3 new arrays, the first
\* of which gets the identity next
snapshotArrays_Shared(live, next, rowCount) == live.fixed \cup live.row

snapshotArrays(live, next, rowCount) == next..(next + 2 + rowCount)

\* the identities of the arrays undo() and redo() assign to the model:
\* copies of the entry's arrays, the first of which gets the identity next
restoredArrays(next, rowCount) ==
  [fixed |-> next..(next + 2), row |-> (next + 3)..(next + 2 + rowCount)]

Save_NoTruncate ==
  /\ history' = Append(history, snapshot)
  /\ historyIndex' = historyIndex + 1

Save ==
  /\ history' = saveToHistory.history
  /\ historyIndex' = saveToHistory.historyIndex

Restore(entry) ==
  /\ headers' = entry.headers
  /\ rows' = entry.rows
  /\ alignments' = entry.alignments

undo_KeepModel ==
  IF historyIndex > 0
    THEN [returned |-> TRUE, historyIndex |-> historyIndex - 1,
          model |-> snapshot]
    ELSE [returned |-> FALSE, historyIndex |-> historyIndex,
          model |-> snapshot]

\* TableState.undo(): what it returns, the cursor and the model it leaves
undo ==
  IF historyIndex > 0
    THEN [returned |-> TRUE, historyIndex |-> historyIndex - 1,
          model |-> history[historyIndex]]
    ELSE [returned |-> FALSE, historyIndex |-> historyIndex,
          model |-> snapshot]

redo_AtLastEntry ==
  IF historyIndex >= 0 /\ historyIndex <= Len(history) - 1
    THEN [returned |-> TRUE,
          historyIndex |-> Min(historyIndex + 1, Len(history) - 1),
          model |-> history[Min(historyIndex + 2, Len(history))]]
    ELSE [returned |-> FALSE, historyIndex |-> historyIndex,
          model |-> snapshot]

\* TableState.redo(): what it returns, the cursor and the model it leaves
redo ==
  IF historyIndex < Len(history) - 1
    THEN [returned |-> TRUE, historyIndex |-> historyIndex + 1,
          model |-> history[historyIndex + 2]]
    ELSE [returned |-> FALSE, historyIndex |-> historyIndex,
          model |-> snapshot]

reset_KeepCursor ==
  /\ headers' = <<>>
  /\ rows' = <<>>
  /\ alignments' = <<>>
  /\ isReorderMode' = FALSE
  /\ outputFormat' = FORMAT.MARKDOWN
  /\ history' = <<>>
  /\ UNCHANGED historyIndex

reset ==
  /\ headers' = <<>>
  /\ rows' = <<>>
  /\ alignments' = <<>>
  /\ isReorderMode' = FALSE
  /\ outputFormat' = FORMAT.MARKDOWN
  /\ history' = <<>>
  /\ historyIndex' = -1

isEmpty == Len(headers) = 0 /\ Len(rows) = 0

isValid == Len(headers) > 0 /\ Len(alignments) = Len(headers)

showNotification(message) == notification' = message

(***************************************************************************)
(* String.prototype.localeCompare                                          *)
(*                                                                         *)
(* The characters of the model in the order of the root collation: white   *)
(* space, punctuation, symbols, digits, letters.  U+FE0F (variation        *)
(* selector) is ignorable.                                                 *)
(***************************************************************************)
CollationOrder ==
  <<"\t", "\n", "\r", " ", "U+00A0", "_", "-", ",", ";", ":", "!", "?", ".",
    "'", "\"", "(", ")", "*", "/", "&", "#", "+", "<", "=", ">", "|",
    "U+00D7", "U+2705", "U+2713", "U+2714", "U+2716", "U+2717", "U+274C",
    "0", "1", "2", "3", "4", "5", "6", "7", "8", "9",
    "a", "b", "c", "d", "e", "f", "g", "h", "i", "j", "k", "l", "m", "n",
    "o", "p", "q", "r", "s", "t", "u", "v", "w", "x", "y", "z">>

Digits == {"0", "1", "2", "3", "4", "5", "6", "7", "8", "9"}

Ignorable == {"U+FE0F", "U+FEFF", "\f"}

Rank(ch) ==
  LET lc == IF ch \in DOMAIN UpperToLower THEN UpperToLower[ch] ELSE ch
  IN  CHOOSE i \in 1..Len(CollationOrder) : CollationOrder[i] = lc

DigitOf(ch) == Rank(ch) - Rank("0")

RECURSIVE DigitRunLen(_)
DigitRunLen(s) ==
  IF s # <<>> /\ Head(s) \in Digits THEN 1 + DigitRunLen(Tail(s)) ELSE 0

RECURSIVE DigitValue(_)
DigitValue(s) ==
  IF s = <<>> THEN 0
  ELSE 10 * DigitValue(SubSeq(s, 1, Len(s) - 1)) + DigitOf(s[Len(s)])

\* primary collation keys of s; with numeric a run of digits is one key
RECURSIVE CollationKeys(_, _)
CollationKeys(s, numeric) ==
  IF s = <<>> THEN <<>>
  ELSE IF Head(s) \in Ignorable THEN CollationKeys(Tail(s), numeric)
  ELSE IF numeric /\ Head(s) \in Digits
    THEN LET n == DigitRunLen(s)
         IN  <<<<Rank("0"), DigitValue(SubSeq(s, 1, n))>>>>
               \o CollationKeys(SubSeq(s, n + 1, Len(s)), numeric)
  ELSE <<<<Rank(Head(s)), 0>>>> \o CollationKeys(Tail(s), numeric)

RECURSIVE CompareKeys(_, _)
CompareKeys(a, b) ==
  IF a = <<>> /\ b = <<>> THEN 0
  ELSE IF a = <<>> THEN -1
  ELSE IF b = <<>> THEN 1
  ELSE IF Head(a)[1] # Head(b)[1]
    THEN (IF Head(a)[1] < Head(b)[1] THEN -1 ELSE 1)
  ELSE IF Head(a)[2] # Head(b)[2]
    THEN (IF Head(a)[2] < Head(b)[2] THEN -1 ELSE 1)
  ELSE CompareKeys(Tail(a), Tail(b))

localeCompare(a, b, numeric) ==
  CompareKeys(CollationKeys(a, numeric), CollationKeys(b, numeric))

\* a[0] || ''
FirstCell(row) == IF Len(row) = 0 THEN <<>> ELSE row[1]

\* the comparator handed to state.rows.sort by sortRows
sortCompare(c, a, b) ==
  IF c = DIST
    THEN LET aVal == toLowerCase(trim(FirstCell(a)))
             bVal == toLowerCase(trim(FirstCell(b)))
         IN  IF aVal = <<>> /\ bVal # <<>> THEN 1
             ELSE IF bVal = <<>> /\ aVal # <<>> THEN -1
             ELSE IF aVal = <<>> /\ bVal = <<>> THEN 0
             ELSE localeCompare(aVal, bVal, TRUE)
    ELSE localeCompare(toLowerCase(FirstCell(a)), toLowerCase(FirstCell(b)),
                       FALSE)

\* Array.prototype.sort is stable: x goes behind every element not above it
RECURSIVE InsertSorted(_, _, _)
InsertSorted(c, sorted, x) ==
  IF sorted = <<>> THEN <<x>>
  ELSE IF sortCompare(c, Head(sorted), x) > 0 THEN <<x>> \o sorted
  ELSE <<Head(sorted)>> \o InsertSorted(c, Tail(sorted), x)

RECURSIVE sortedRows(_, _)
sortedRows(c, rs) ==
  IF rs = <<>> THEN <<>>
  ELSE InsertSorted(c, sortedRows(c, SubSeq(rs, 1, Len(rs) - 1)), rs[Len(rs)])

(***************************************************************************)
(* Parser                                                                  *)
(***************************************************************************)
\* index of the first occurrence of character ch in s, 0 when there is none
RECURSIVE IndexOf(_, _)
IndexOf(s, ch) ==
  IF s = <<>> THEN 0
  ELSE IF Head(s) = ch THEN 1
  ELSE LET i == IndexOf(Tail(s), ch) IN IF i = 0 THEN 0 ELSE i + 1

\* String.prototype.split(ch) for a single character ch
RECURSIVE split(_, _)
split(s, ch) ==
  LET i == IndexOf(s, ch)
  IN  IF i = 0 THEN <<s>>
      ELSE <<SubSeq(s, 1, i - 1)>> \o split(SubSeq(s, i + 1, Len(s)), ch)

\* Array.prototype.join(sep)
RECURSIVE join(_, _)
join(ss, sep) ==
  IF ss = <<>> THEN <<>>
  ELSE IF Len(ss) = 1 THEN ss[1]
  ELSE ss[1] \o sep \o join(Tail(ss), sep)

\* String.prototype.includes(sub)
includes(s, sub) ==
  \E i \in 1..(Len(s) - Len(sub) + 1) : SubSeq(s, i, i + Len(sub) - 1) = sub

\* Array.prototype.filter: the elements at the kept places, in order
filter(s, kept) ==
  LET F[i \in 0..Len(s)] ==
        IF i = 0 THEN <<>>
        ELSE IF i \in kept THEN Append(F[i - 1], s[i]) ELSE F[i - 1]
  IN  F[Len(s)]

\* input.split('\n').filter(line => line.trim())
nonBlankLines(input) ==
  LET ls == split(input, "\n")
  IN  filter(ls, {i \in 1..Len(ls) : trim(ls[i]) # <<>>})

TABLE_OPEN == <<"<", "t", "a", "b", "l", "e">>
TABLE_CLOSE == <<"<", "/", "t", "a", "b", "l", "e", ">">>

\* /<table[\s\S]*?<\/table>/i.test(input)
matchesTableSpan(input) ==
  LET low == toLowerCase(input)
  IN  \E i \in 1..(Len(low) - Len(TABLE_OPEN) + 1) :
        /\ SubSeq(low, i, i + Len(TABLE_OPEN) - 1) = TABLE_OPEN
        /\ includes(SubSeq(low, i + Len(TABLE_OPEN), Len(low)), TABLE_CLOSE)

detectHTMLTable(input) ==
  matchesTableSpan(input) \/ includes(toLowerCase(input), TABLE_OPEN)

RECURSIVE skipWhile(_, _)
skipWhile(s, set) ==
  IF s # <<>> /\ Head(s) \in set THEN skipWhile(Tail(s), set) ELSE s

skipOne(s, ch) == IF s # <<>> /\ Head(s) = ch THEN Tail(s) ELSE s

\* /^\s*\|?\s*:?-+:?\s*\|\s*/.test(line): no alternative of the pattern
\* matches where the greedy one fails, so the match is tried greedily
isSeparatorLine(line) ==
  LET a == skipWhile(skipOne(skipWhile(line, WhiteSpace), "|"), WhiteSpace)
      b == skipOne(a, ":")
      c == skipWhile(b, {"-"})
      d == skipWhile(skipOne(c, ":"), WhiteSpace)
  IN  /\ Len(c) < Len(b)
      /\ d # <<>>
      /\ Head(d) = "|"

detectMarkdownTable(input) ==
  LET lines == nonBlankLines(input)
  IN  IF Len(lines) < 2 THEN FALSE
      ELSE LET hasPipes == \E i \in 1..Len(lines) : IndexOf(lines[i], "|") # 0
               hasSeparator == \E i \in 1..Len(lines) : isSeparatorLine(lines[i])
           IN  hasPipes /\ hasSeparator

parseRow(row) ==
  LET cells == split(row, "|")
      kept == filter(cells, {i \in 1..Len(cells) :
                /\ ~(i = 1 /\ trim(cells[i]) = <<>>)
                /\ ~(i = Len(cells) /\ trim(cells[i]) = <<>>)})
  IN  [i \in 1..Len(kept) |-> trim(kept[i])]

\* what a parse hands back: a thrown Error(message) or a parsed table
Throw(message) ==
  [threw |-> TRUE, message |-> message,
   headers |-> <<>>, alignments |-> <<>>, rows |-> <<>>]

Return(hs, as, rs) ==
  [threw |-> FALSE, message |-> "", headers |-> hs, alignments |-> as,
   rows |-> rs]

\* while (row.length < n) row.push(''); if (row.length > n) row.length = n
fitRow(row, n) ==
  [i \in 1..n |-> IF i <= Len(row) THEN row[i] ELSE <<>>]

separatorAlignment(sep) ==
  LET trimmed == trim(sep)
      startsColon == trimmed # <<>> /\ Head(trimmed) = ":"
      endsColon == trimmed # <<>> /\ trimmed[Len(trimmed)] = ":"
  IN  IF startsColon /\ endsColon THEN ALIGN.CENTER
      ELSE IF endsColon THEN ALIGN.RIGHT
      ELSE ALIGN.LEFT

parseMarkdown(c, input) ==
  LET lines == nonBlankLines(trim(input))
  IN  IF Len(lines) < 2
        THEN Throw("Markdown table must have at least a header and separator row")
      ELSE
        LET hs == parseRow(lines[1])
            separators == parseRow(lines[2])
            rs == [r \in 1..(Len(lines) - 2) |->
                     fitRow(parseRow(lines[r + 2]), Len(hs))]
        IN  IF Len(hs) # Len(separators)
              THEN Throw("Header and separator row must have the same number of columns")
            ELSE Return(
                   [i \in 1..Len(hs) |-> escapeHtml(hs[i])],
                   [i \in 1..Len(separators) |->
                      separatorAlignment(separators[i])],
                   [r \in 1..Len(rs) |->
                      [i \in 1..Len(rs[r]) |->
                         escapeHtml(normalizeCheckValue(c, rs[r][i]))]])

(***************************************************************************)
(* HTML strategy.  div.innerHTML = input is the browser's HTML parser; the *)
(* model knows its result on the sample documents below.  A table element  *)
(* is the sequence of its tr elements in document order; a tr carries the  *)
(* section that holds it, a cell its tag, classes, inline text-align,      *)
(* colspan attribute (<<>> when absent) and text.  The HTML parser puts a  *)
(* tr that is written directly inside table into an implied tbody.         *)
(***************************************************************************)
Cell(tag, classes, textAlign, colspan, text) ==
  [tag |-> tag, classList |-> classes, textAlign |-> textAlign,
   align |-> "", colspan |-> colspan, textContent |-> text]

NoTable == [hasTable |-> FALSE, trs |-> <<>>]

\* <table><tr><th>A</th><th class="text-right">B</th></tr>
\* <tr><td colspan="2">x</td></tr></table>
SampleHtmlText ==
  <<"<", "t", "a", "b", "l", "e", ">", "<", "t", "r", ">",
    "<", "t", "h", ">", "A", "<", "/", "t", "h", ">",
    "<", "t", "h", " ", "c", "l", "a", "s", "s", "=", "\"", "t", "e", "x",
    "t", "-", "r", "i", "g", "h", "t", "\"", ">", "B", "<", "/", "t", "h", ">",
    "<", "/", "t", "r", ">", "\n", "<", "t", "r", ">",
    "<", "t", "d", " ", "c", "o", "l", "s", "p", "a", "n", "=", "\"", "2",
    "\"", ">", "x", "<", "/", "t", "d", ">", "<", "/", "t", "r", ">",
    "<", "/", "t", "a", "b", "l", "e", ">">>

SampleHtmlDom ==
  [hasTable |-> TRUE,
   trs |-> <<
     [section |-> "tbody",
      cells |-> <<Cell("th", {}, "", <<>>, <<"A">>),
                  Cell("th", {"text-right"}, "", <<>>, <<"B">>)>>],
     [section |-> "tbody",
      cells |-> <<Cell("td", {}, "", <<"2">>, <<"x">>)>>]>>]

\* The documents given to the HTML parser: rows inside thead, rows inside
\* an explicit tbody or directly inside table, each cell written with its
\* class, style and colspan attributes.
Doc(head, explicitBody, body) ==
  [head |-> head, explicitBody |-> explicitBody, body |-> body]

element(name, attrs, content) ==
  <<"<">> \o name \o attrs \o <<">">> \o content \o <<"<", "/">> \o name
    \o <<">">>

attribute(name, value) ==
  <<" ">> \o name \o <<"=", "\"">> \o value \o <<"\"">>

ClassNames ==
  [text_center |-> <<"t", "e", "x", "t", "-", "c", "e", "n", "t", "e", "r">>,
   text_right |-> <<"t", "e", "x", "t", "-", "r", "i", "g", "h", "t">>]

className(class) ==
  IF class = "text-center" THEN ClassNames.text_center
  ELSE ClassNames.text_right

AlignNames ==
  [center |-> <<"c", "e", "n", "t", "e", "r">>, right |-> <<"r", "i", "g", "h", "t">>, left |-> <<"l", "e", "f", "t">>]

\* the source text of a text node: the parser decodes the three entities
encodeText(text) ==
  replaceAll(replaceAll(replaceAll(text,
      "&", <<"&", "a", "m", "p", ";">>),
      "<", <<"&", "l", "t", ";">>),
      ">", <<"&", "g", "t", ";">>)

cellText(cell) ==
  element(IF cell.tag = "th" THEN <<"t", "h">> ELSE <<"t", "d">>,
          (IF cell.classList = {} THEN <<>>
           ELSE attribute(<<"c", "l", "a", "s", "s">>,
                  className(CHOOSE class \in cell.classList : TRUE)))
          \o (IF cell.textAlign = "" THEN <<>>
              ELSE attribute(<<"s", "t", "y", "l", "e">>,
                     <<"t", "e", "x", "t", "-", "a", "l", "i", "g", "n", ":">> \o AlignNames[cell.textAlign]))
          \o (IF cell.align = "" THEN <<>>
              ELSE attribute(<<"a", "l", "i", "g", "n">>,
                             AlignNames[cell.align]))
          \o (IF cell.colspan = <<>> THEN <<>>
              ELSE attribute(<<"c", "o", "l", "s", "p", "a", "n">>, cell.colspan)),
          encodeText(cell.textContent))

rowText(cells) ==
  element(<<"t", "r">>, <<>>,
          Concat([k \in 1..Len(cells) |-> cellText(cells[k])]))

rowsText(trs) == Concat([r \in 1..Len(trs) |-> rowText(trs[r])])

htmlText(doc) ==
  element(<<"t", "a", "b", "l", "e">>, <<>>,
    (IF doc.head = <<>> THEN <<>>
     ELSE element(<<"t", "h", "e", "a", "d">>, <<>>, rowsText(doc.head)))
    \o (IF doc.explicitBody
          THEN element(<<"t", "b", "o", "d", "y">>, <<>>, rowsText(doc.body))
          ELSE rowsText(doc.body)))

\* the tree the HTML parser builds: a tr written directly inside table is
\* put into an implied tbody
htmlTree(doc) ==
  [hasTable |-> TRUE,
   trs |-> [r \in 1..Len(doc.head) |->
              [section |-> "thead", cells |-> doc.head[r]]]
           \o [r \in 1..Len(doc.body) |->
                 [section |-> "tbody", cells |-> doc.body[r]]]]

TH(text) == Cell("th", {}, "", <<>>, text)
TD(text) == Cell("td", {}, "", <<>>, text)
SPAN(colspan, text) == Cell("td", {}, "", colspan, text)

ThreeHeaders == <<TH(<<"A">>), TH(<<"B">>), TH(<<"C">>)>>

\* colspan attribute values: absent, in range, beyond the header count,
\* zero and not a number
Colspans == {<<>>, <<"2">>, <<"3">>, <<"4">>, <<"0">>, <<"x">>}

SpanRows ==
  {<<SPAN(n, <<"x">>), TD(<<"y">>)>> : n \in Colspans}
    \cup {<<SPAN(n, <<" ", "x", " ">>), TD(<<"z">>)>> : n \in Colspans}
    \cup {<<TD(<<"z">>), SPAN(n, <<"x">>)>> : n \in Colspans}

\* texts with the characters escapeHtml replaces
RawTexts == {<<"<", "b", ">">>, <<"\"", "'">>, <<"a", "&", "b">>}

RawDocs ==
  {Doc(<<<<TH(h), TH(<<"B">>)>>>>, TRUE, <<<<TD(t), TD(<<"x">>)>>>>) :
     h \in RawTexts, t \in RawTexts}

\* header cells with a class, an inline text-align and an align attribute,
\* each present or not
AlignCells ==
  {[Cell("th", classes, textAlign, <<>>, <<"A">>) EXCEPT !.align = align] :
     classes \in {{}, {"text-center"}, {"text-right"}},
     textAlign \in {"", "center", "right", "left"},
     align \in {"", "center", "right"}}

AlignDocs ==
  {Doc(<<<<cell, TH(<<"B">>)>>>>, TRUE, <<<<TD(<<"x">>), TD(<<"z">>)>>>>) :
     cell \in AlignCells}

\* table layouts: the header row in thead, as the first or the second row
\* of the body, a table of td rows only, and a thead of two rows without a
\* body
TwoHeaders == <<TH(<<"A">>), TH(<<"B">>)>>
DataXZ == <<TD(<<"x">>), TD(<<"z">>)>>
DataPQ == <<TD(<<"p">>), TD(<<"q">>)>>

LayoutDocs ==
  {Doc(<<TwoHeaders>>, explicitBody, <<DataXZ, DataPQ>>) :
     explicitBody \in BOOLEAN}
    \cup {Doc(<<>>, explicitBody, body) :
            explicitBody \in BOOLEAN,
            body \in {<<TwoHeaders, DataXZ, DataPQ>>,
                      <<DataXZ, TwoHeaders, DataPQ>>,
                      <<DataXZ, DataPQ>>}}
    \cup {Doc(<<TwoHeaders, DataXZ>>, FALSE, <<>>)}

HtmlDocs ==
  {Doc(<<ThreeHeaders>>, TRUE, <<row>>) : row \in SpanRows}
    \cup LayoutDocs
    \cup RawDocs
    \cup AlignDocs
    \cup {Doc(<<>>, FALSE, <<ThreeHeaders, row>>) : row \in SpanRows}
    \cup {Doc(<<>>, FALSE, <<>>), Doc(<<>>, FALSE, <<<<>>>>),
          Doc(<<ThreeHeaders>>, FALSE, <<>>)}

\* "<table": the tokenizer drops the unfinished tag
UnfinishedTable == TABLE_OPEN

innerHTML(input) ==
  IF input = SampleHtmlText THEN SampleHtmlDom
  ELSE IF \E doc \in HtmlDocs : htmlText(doc) = input
    THEN htmlTree(CHOOSE doc \in HtmlDocs : htmlText(doc) = input)
  ELSE NoTable

\* parseInt(s, 10) of an attribute value; isNaN when no digits lead it
parseInt(s) ==
  LET t == TrimStart(s)
      neg == t # <<>> /\ Head(t) = "-"
      u == IF t # <<>> /\ Head(t) \in {"-", "+"} THEN Tail(t) ELSE t
      n == DigitRunLen(u)
      v == DigitValue(SubSeq(u, 1, n))
  IN  [isNaN |-> n = 0, value |-> IF neg THEN 0 - v ELSE v]

spanCells_NoPlaceholders(cell) == <<trim(cell.textContent)>>

\* the cells one td/th contributes: its text, then '' while i < colspan
spanCells(cell) ==
  LET colspan == parseInt(IF cell.colspan = <<>> THEN <<"1">>
                          ELSE cell.colspan)
      extra == IF colspan.isNaN THEN 0 ELSE Max(colspan.value - 1, 0)
  IN  <<trim(cell.textContent)>> \o emptyRow(extra)

\* window.getComputedStyle(cell).textAlign: the cell is inside a div that
\* is not in the document, and the computed style of an element that is not
\* connected has no declarations
computedTextAlign(cell) == ""

headerAlignment(cell) ==
  LET textAlign == IF cell.textAlign # "" THEN cell.textAlign
                   ELSE computedTextAlign(cell)
  IN  IF "text-center" \in cell.classList \/ textAlign = "center"
        THEN ALIGN.CENTER
      ELSE IF "text-right" \in cell.classList \/ textAlign = "right"
        THEN ALIGN.RIGHT
      ELSE ALIGN.LEFT

HtmlError(message) == Throw("Error parsing HTML table: " \o message)

\* parseHTML once tempDiv holds the tree dom
parseTree(c, dom) ==
  LET trs == dom.trs
      inHead == {i \in 1..Len(trs) : trs[i].section = "thead"}
      hasTh == {i \in 1..Len(trs) :
                  \E k \in 1..Len(trs[i].cells) : trs[i].cells[k].tag = "th"}
      first(S) == CHOOSE i \in S : \A j \in S : i <= j
      headerRow == IF inHead # {} THEN first(inHead)
                   ELSE IF hasTh # {} THEN first(hasTh)
                   ELSE 1
  IN  IF ~dom.hasTable THEN HtmlError("No table element found in HTML input")
      ELSE IF Len(trs) = 0 THEN HtmlError("No header row found in HTML table")
      ELSE
        LET headerCells == trs[headerRow].cells
            hs == [i \in 1..Len(headerCells) |->
                     trim(headerCells[i].textContent)]
            inBody == {i \in 1..Len(trs) : trs[i].section = "tbody"}
            dataRows == IF inBody # {}
                          THEN filter(trs, inBody)
                          ELSE Tail(trs)
            rs == [r \in 1..Len(dataRows) |->
                     fitRow(Concat([k \in 1..Len(dataRows[r].cells) |->
                                      spanCells(dataRows[r].cells[k])]),
                            Len(hs))]
        IN  IF Len(hs) = 0 THEN HtmlError("No headers found in HTML table")
            ELSE Return(
                   [i \in 1..Len(hs) |-> escapeHtml(hs[i])],
                   [i \in 1..Len(headerCells) |->
                      headerAlignment(headerCells[i])],
                   [r \in 1..Len(rs) |->
                      [i \in 1..Len(rs[r]) |->
                         escapeHtml(normalizeCheckValue(c, rs[r][i]))]])

parseHTML(c, input) == parseTree(c, innerHTML(input))

\* Parser.parse(input)
parse(c, input) ==
  LET trimmed == trim(input)
  IN  IF trimmed = <<>> THEN Throw("Please enter a markdown or HTML table")
      ELSE IF detectHTMLTable(trimmed) THEN parseHTML(c, trimmed)
      ELSE IF detectMarkdownTable(trimmed) THEN parseMarkdown(c, trimmed)
      ELSE Throw("Input does not appear to be a valid HTML or Markdown table")

(***************************************************************************)
(* Formatters                                                              *)
(***************************************************************************)
ALIGN_MARKDOWN ==
  [center |-> <<":", "-", "-", "-", ":">>,
   right |-> <<"-", "-", "-", ":">>,
   left |-> <<":", "-", "-", "-">>]

SEP == <<" ", "|", " ">>

\* `| ${cells.join(' | ')} |`
markdownLine(cells) == <<"|", " ">> \o join(cells, SEP) \o <<" ", "|">>

\* Formatters[FORMAT.MARKDOWN]()
formatMarkdown(c, hs, as, rs) ==
  LET header == markdownLine(hs)
      separator == markdownLine([i \in 1..Len(as) |-> ALIGN_MARKDOWN[as[i]]])
      body == join([r \in 1..Len(rs) |->
                      markdownLine([i \in 1..Len(rs[r]) |->
                                      normalizeCheckValue(c, rs[r][i])])],
                   <<"\n">>)
      parts == <<header, separator, body>>
  IN  join(filter(parts, {i \in 1..Len(parts) : parts[i] # <<>>}), <<"\n">>)

\* String.prototype.replace(/\*\*/g, ''): matches are taken left to right
RECURSIVE stripBold(_)
stripBold(s) ==
  IF s = <<>> THEN <<>>
  ELSE IF Len(s) >= 2 /\ s[1] = "*" /\ s[2] = "*"
    THEN stripBold(SubSeq(s, 3, Len(s)))
  ELSE <<Head(s)>> \o stripBold(Tail(s))

\* An object is the sequence of its properties in creation order.
\* obj[key] = value: an existing property keeps its place
defineProperty(obj, key, value) ==
  IF \E i \in 1..Len(obj) : obj[i].key = key
    THEN [i \in 1..Len(obj) |->
            IF obj[i].key = key THEN [key |-> key, value |-> value]
            ELSE obj[i]]
    ELSE Append(obj, [key |-> key, value |-> value])

MaxArrayIndex == <<"4", "2", "9", "4", "9", "6", "7", "2", "9", "4">>

\* a key that is a canonical array index: a decimal numeral without a
\* leading zero, at most 2^32 - 2
isArrayIndex(key) ==
  /\ key # <<>>
  /\ DigitRunLen(key) = Len(key)
  /\ Len(key) = 1 \/ Head(key) # "0"
  /\ \/ Len(key) < Len(MaxArrayIndex)
     \/ /\ Len(key) = Len(MaxArrayIndex)
        /\ \A i \in 1..Len(key) :
             \/ DigitValue(<<key[i]>>) <= DigitValue(<<MaxArrayIndex[i]>>)
             \/ \E j \in 1..(i - 1) :
                  DigitValue(<<key[j]>>) < DigitValue(<<MaxArrayIndex[j]>>)

\* the order in which JSON.stringify visits the properties: array indices
\* in ascending order, then the other keys in creation order
RECURSIVE ascending(_)
ascending(obj) ==
  IF obj = <<>> THEN <<>>
  ELSE LET m == CHOOSE i \in 1..Len(obj) :
                  \A j \in 1..Len(obj) :
                    DigitValue(obj[i].key) <= DigitValue(obj[j].key)
       IN  <<obj[m]>> \o ascending(filter(obj, (1..Len(obj)) \ {m}))

ownProperties(obj) ==
  ascending(filter(obj, {i \in 1..Len(obj) : isArrayIndex(obj[i].key)}))
    \o filter(obj, {i \in 1..Len(obj) : ~isArrayIndex(obj[i].key)})

\* JSON.stringify of a string
quote(str) ==
  <<"\"">>
    \o Concat([i \in 1..Len(str) |->
                 IF str[i] = "\"" THEN <<"\\", "\"">>
                 ELSE IF str[i] = "\\" THEN <<"\\", "\\">>
                 ELSE IF str[i] = "\n" THEN <<"\\", "n">>
                 ELSE <<str[i]>>])
    \o <<"\"">>

indent(n) == [i \in 1..n |-> " "]

\* the text of an object whose properties, in the order of the visit, have
\* the texts members, nested at depth
braces(members, depth) ==
  IF members = <<>> THEN <<"{", "}">>
  ELSE <<"{", "\n">>
         \o join([i \in 1..Len(members) |->
                    indent(2 * (depth + 1)) \o members[i]],
                 <<",", "\n">>)
         \o <<"\n">> \o indent(2 * depth) \o <<"}">>

member(key, text) == quote(key) \o <<":", " ">> \o text

\* the members of an object of strings
stringMembers(ps) ==
  [i \in 1..Len(ps) |-> member(ps[i].key, quote(ps[i].value))]

\* JSON.stringify(obj, null, 2) of an object of strings, nested at depth
stringifyRow(obj, depth) == braces(stringMembers(ownProperties(obj)), depth)

\* the members of an object of objects of strings
objectMembers(ps) ==
  [i \in 1..Len(ps) |-> member(ps[i].key, stringifyRow(ps[i].value, 1))]

\* JSON.stringify(result, null, 2)
stringify(result) == braces(objectMembers(ownProperties(result)), 0)

\* the object result[key] of one row
jsonRow(c, hs, row) ==
  LET F[i \in 1..Len(hs)] ==
        IF i = 1 THEN <<>>
        ELSE defineProperty(F[i - 1], stripBold(hs[i]),
               IF isChecked(c, row[i]) THEN CHECK
               ELSE IF isUnchecked(c, row[i]) THEN CROSS
               ELSE row[i])
  IN  F[Len(hs)]

\* the object result of Formatters[FORMAT.JSON]()
jsonResult(c, hs, rs) ==
  LET F[r \in 0..Len(rs)] ==
        IF r = 0 THEN <<>>
        ELSE LET key == stripBold(rs[r][1])
             IN  IF key = <<>> THEN F[r - 1]
                 ELSE defineProperty(F[r - 1], key, jsonRow(c, hs, rs[r]))
  IN  F[Len(rs)]

\* Formatters[FORMAT.JSON]()
formatJSON(c, hs, rs) == stringify(jsonResult(c, hs, rs))

alignClass(align) ==
  IF align # ALIGN.LEFT
    THEN <<" ", "c", "l", "a", "s", "s", "=", "\"", "t", "e", "x", "t", "-">> \o AlignNames[align] \o <<"\"">>
    ELSE <<>>

\* Formatters[FORMAT.HTML]()
formatHTML(c, hs, as, rs) ==
  LET headerCells ==
        Concat([i \in 1..Len(hs) |->
                  <<"<", "t", "h">> \o alignClass(as[i]) \o <<">">>
                    \o hs[i] \o <<"<", "/", "t", "h", ">">>])
      bodyRows ==
        join([r \in 1..Len(rs) |->
                <<"<", "t", "r", ">">>
                  \o Concat([i \in 1..Len(rs[r]) |->
                               <<"<", "t", "d">> \o alignClass(as[i])
                                 \o <<">">>
                                 \o normalizeCheckValue(c, rs[r][i])
                                 \o <<"<", "/", "t", "d", ">">>])
                  \o <<"<", "/", "t", "r", ">">>],
             <<"\n">>)
  IN  <<"<", "t", "a", "b", "l", "e", ">", "\n", "<", "t", "h", "e", "a", "d", ">", "\n", "<", "t", "r", ">">>
        \o headerCells
        \o <<"<", "/", "t", "r", ">", "\n", "<", "/", "t", "h", "e", "a", "d", ">", "\n", "<", "t", "b", "o", "d", "y", ">", "\n">>
        \o bodyRows
        \o <<"\n", "<", "/", "t", "b", "o", "d", "y", ">", "\n", "<", "/", "t", "a", "b", "l", "e", ">">>

(***************************************************************************)
(* TableOperations.  Every action is one call of the handler: it sets the  *)
(* variables of the application and leaves pc, arg, ret, editCount and     *)
(* undoCalls to the specification that uses it.  TableRenderer.render and  *)
(* OutputGenerator.generate write the page only.                           *)
(***************************************************************************)
NEW_COLUMN == <<"N", "e", "w", " ", "C", "o", "l", "u", "m", "n">>

\* if (state.isReorderMode) { showNotification(...); return; }
\* part_001 returns without a notification
ExitReorderModeFirst ==
  /\ IF copy = DIST THEN showNotification("Exit reorder mode first")
                    ELSE UNCHANGED notification
  /\ UNCHANGED <<model, hist>>

\* an early return after showNotification(message)
Fail(message) ==
  /\ showNotification(message)
  /\ UNCHANGED <<model, hist>>

addColumn_NoAlign ==
  /\ UNCHANGED <<copy, isReorderMode, outputFormat, ui>>
  /\ IF isReorderMode THEN ExitReorderModeFirst
     ELSE /\ Save
          /\ headers' = Append(headers, NEW_COLUMN)
          /\ UNCHANGED alignments
          /\ rows' = [r \in 1..Len(rows) |-> Append(rows[r], <<>>)]
          /\ showNotification(IF copy = DIST THEN "Column added successfully"
                                             ELSE "Column added")

addColumn ==
  /\ UNCHANGED <<copy, isReorderMode, outputFormat, ui>>
  /\ IF isReorderMode THEN ExitReorderModeFirst
     ELSE /\ Save
          /\ headers' = Append(headers, NEW_COLUMN)
          /\ alignments' = Append(alignments, ALIGN.LEFT)
          /\ rows' = [r \in 1..Len(rows) |-> Append(rows[r], <<>>)]
          /\ showNotification(IF copy = DIST THEN "Column added successfully"
                                             ELSE "Column added")

addRow_Ungated ==
  /\ UNCHANGED <<copy, isReorderMode, outputFormat, ui>>
  /\ IF Len(headers) = 0 THEN Fail("Please add headers first")
     ELSE /\ Save
          /\ rows' = Append(rows, emptyRow(Len(headers)))
          /\ UNCHANGED <<headers, alignments>>
          /\ showNotification(IF copy = DIST THEN "Row added successfully"
                                             ELSE "Row added")

addRow ==
  /\ UNCHANGED <<copy, isReorderMode, outputFormat, ui>>
  /\ IF isReorderMode THEN ExitReorderModeFirst
     ELSE IF Len(headers) = 0 THEN Fail("Please add headers first")
     ELSE /\ Save
          /\ rows' = Append(rows, emptyRow(Len(headers)))
          /\ UNCHANGED <<headers, alignments>>
          /\ showNotification(IF copy = DIST THEN "Row added successfully"
                                             ELSE "Row added")

\* headers, alignments and every row lose the element at index
spliceColumn(index) ==
  /\ headers' = splice(headers, index, 1, <<>>)
  /\ alignments' = splice(alignments, index, 1, <<>>)
  /\ rows' = [r \in 1..Len(rows) |-> splice(rows[r], index, 1, <<>>)]

removeColumn_NoGuard ==
  /\ UNCHANGED <<copy, isReorderMode, outputFormat, ui>>
  /\ IF isReorderMode THEN ExitReorderModeFirst
     ELSE /\ Save
          /\ spliceColumn(Len(headers) - 1)
          /\ showNotification("Column removed")

removeColumn ==
  /\ UNCHANGED <<copy, isReorderMode, outputFormat, ui>>
  /\ IF isReorderMode THEN ExitReorderModeFirst
     ELSE IF Len(headers) <= 1 THEN Fail("Cannot remove the last column")
     ELSE /\ Save
          /\ spliceColumn(Len(headers) - 1)
          /\ showNotification("Column removed")

removeColumnAt(index) ==
  /\ UNCHANGED <<copy, isReorderMode, outputFormat, ui>>
  /\ IF isReorderMode THEN ExitReorderModeFirst
     ELSE IF Len(headers) <= 1 THEN Fail("Cannot remove the last column")
     ELSE IF index < 0 \/ index >= Len(headers)
       THEN Fail("Invalid column index")
     ELSE /\ Save
          /\ spliceColumn(index)
          /\ showNotification("Column removed")

removeRow ==
  /\ UNCHANGED <<copy, isReorderMode, outputFormat, ui>>
  /\ IF isReorderMode THEN ExitReorderModeFirst
     ELSE IF Len(rows) = 0 THEN Fail("No rows to remove")
     ELSE /\ Save
          /\ rows' = SubSeq(rows, 1, Len(rows) - 1)
          /\ UNCHANGED <<headers, alignments>>
          /\ showNotification("Row removed")

removeRowAt_SaveFirst(index) ==
  /\ UNCHANGED <<copy, isReorderMode, outputFormat, ui>>
  /\ IF isReorderMode THEN ExitReorderModeFirst
     ELSE /\ Save
          /\ IF index < 0 \/ index >= Len(rows)
               THEN showNotification("Invalid row index") /\ UNCHANGED model
               ELSE /\ rows' = splice(rows, index, 1, <<>>)
                    /\ UNCHANGED <<headers, alignments>>
                    /\ showNotification("Row removed")

removeRowAt(index) ==
  /\ UNCHANGED <<copy, isReorderMode, outputFormat, ui>>
  /\ IF isReorderMode THEN ExitReorderModeFirst
     ELSE IF index < 0 \/ index >= Len(rows) THEN Fail("Invalid row index")
     ELSE IF Len(rows) = 0 THEN Fail("No rows to remove")
     ELSE /\ Save
          /\ rows' = splice(rows, index, 1, <<>>)
          /\ UNCHANGED <<headers, alignments>>
          /\ showNotification("Row removed")

sortRows ==
  /\ UNCHANGED <<copy, isReorderMode, outputFormat, ui>>
  /\ IF isReorderMode THEN ExitReorderModeFirst
     ELSE IF Len(rows) <= 1 THEN Fail("Need at least 2 rows to sort")
     ELSE /\ Save
          /\ rows' = sortedRows(copy, rows)
          /\ UNCHANGED <<headers, alignments>>
          /\ showNotification("Rows sorted alphabetically")

\* arr.splice(fromIndex, 1); arr.splice(toIndex, 0, item)
moveItem(arr, fromIndex, toIndex) ==
  splice(splice(arr, fromIndex, 1, <<>>), toIndex, 0, <<arr[fromIndex + 1]>>)

reorderColumns_HeadersOnly(fromIndex, toIndex) ==
  /\ headers' = moveItem(headers, fromIndex, toIndex)
  /\ alignments' = moveItem(alignments, fromIndex, toIndex)
  /\ UNCHANGED rows

reorderColumns(fromIndex, toIndex) ==
  /\ headers' = moveItem(headers, fromIndex, toIndex)
  /\ alignments' = moveItem(alignments, fromIndex, toIndex)
  /\ rows' = [r \in 1..Len(rows) |-> moveItem(rows[r], fromIndex, toIndex)]

reorderRows(fromIndex, toIndex) ==
  /\ rows' = moveItem(rows, fromIndex, toIndex)
  /\ UNCHANGED <<headers, alignments>>

\* [...state.rows[index]] throws a TypeError when rows[index] is undefined:
\* the history entry is pushed already, the rows stay, nothing is notified
duplicateRow(index) ==
  /\ UNCHANGED <<copy, isReorderMode, outputFormat, ui>>
  /\ IF isReorderMode THEN UNCHANGED <<model, hist, notification>>
     ELSE /\ Save
          /\ UNCHANGED <<headers, alignments>>
          /\ IF index >= 0 /\ index < Len(rows)
               THEN /\ rows' = splice(rows, index + 1, 0, <<rows[index + 1]>>)
                    /\ showNotification("Row duplicated")
               ELSE UNCHANGED <<rows, notification>>

insertRowAfter(index) ==
  /\ UNCHANGED <<copy, isReorderMode, outputFormat, ui>>
  /\ IF isReorderMode THEN UNCHANGED <<model, hist, notification>>
     ELSE /\ Save
          /\ rows' = splice(rows, index + 1, 0, <<emptyRow(Len(headers))>>)
          /\ UNCHANGED <<headers, alignments>>
          /\ showNotification("Row inserted")

(***************************************************************************)
(* TableRenderer: the blur handlers of the editable cells.  The page is    *)
(* rebuilt after every change of the table's shape, so a th or td exists   *)
(* exactly for the indices of the model; text is the cell's textContent    *)
(* at the time of the blur.                                                *)
(***************************************************************************)
headerBlur(index, text) ==
  /\ index \in 0..(Len(headers) - 1)
  /\ UNCHANGED <<copy, isReorderMode, outputFormat, ui, notification>>
  /\ IF isReorderMode THEN UNCHANGED <<model, hist>>
     ELSE /\ Save
          /\ headers' = [headers EXCEPT ![index + 1] = escapeHtml(text)]
          /\ UNCHANGED <<rows, alignments>>

cellBlur(rowIndex, colIndex, text) ==
  /\ rowIndex \in 0..(Len(rows) - 1)
  /\ colIndex \in 0..(Len(rows[rowIndex + 1]) - 1)
  /\ UNCHANGED <<copy, isReorderMode, outputFormat, ui, notification>>
  /\ IF isReorderMode THEN UNCHANGED <<model, hist>>
     ELSE /\ Save
          /\ rows' = [rows EXCEPT ![rowIndex + 1][colIndex + 1] =
                        escapeHtml(normalizeCheckValue(copy, text))]
          /\ UNCHANGED <<headers, alignments>>

(***************************************************************************)
(* DragHandlers.handleDrop.  The drag listeners exist in reorder mode      *)
(* only.  fromIndex is the index of the dragged th or tr.                  *)
(*   dist/js/app.js: toIndex is the place the dragged element has in the   *)
(*   page after the dragover moves.                                        *)
(*   part_001: toIndex is parseInt(e.target.dataset.index), the index of   *)
(*   the th dropped on, or NaN for a drop on a td (no data-index); the     *)
(*   dragover handler moves no row, because dataTransfer.getData returns   *)
(*   '' during dragover, so the row's place in the page is fromIndex.      *)
(***************************************************************************)
\* parseInt(undefined, 10): an index is never equal to it; -1 stands for it
NaN == -1

\* ToIntegerOrInfinity of a splice argument: NaN becomes 0
toInteger(n) == IF n = NaN THEN 0 ELSE n

handleDropColumn(fromIndex, toIndex) ==
  /\ isReorderMode
  /\ fromIndex \in 0..(Len(headers) - 1)
  /\ \/ toIndex \in 0..(Len(headers) - 1)
     \/ copy = PART1 /\ toIndex = NaN /\ Len(rows) > 0
  /\ UNCHANGED <<copy, isReorderMode, outputFormat, ui, notification>>
  /\ IF toIndex = NaN \/ fromIndex # toIndex
       THEN /\ Save
            /\ reorderColumns(fromIndex, toInteger(toIndex))
       ELSE UNCHANGED <<model, hist>>

handleDropRow(fromIndex, toIndex) ==
  /\ isReorderMode
  /\ fromIndex \in 0..(Len(rows) - 1)
  /\ UNCHANGED <<copy, isReorderMode, outputFormat, ui, notification>>
  /\ IF copy = DIST
       THEN /\ toIndex \in 0..(Len(rows) - 1)
            /\ IF fromIndex # toIndex
                 THEN Save /\ reorderRows(fromIndex, toIndex)
                 ELSE UNCHANGED <<model, hist>>
       ELSE /\ toIndex \in (0..(Len(headers) - 1)) \cup {NaN}
            /\ IF toIndex = NaN \/ fromIndex # toIndex
                 THEN Save /\ reorderRows(fromIndex, fromIndex)
                 ELSE UNCHANGED <<model, hist>>

(***************************************************************************)
(* App                                                                     *)
(***************************************************************************)
tryParsed_SaveFirst(parsed) ==
  /\ Save
  /\ IF parsed.threw
       THEN /\ showNotification("Error: " \o parsed.message)
            /\ UNCHANGED model
       ELSE /\ headers' = parsed.headers
            /\ alignments' = parsed.alignments
            /\ rows' = parsed.rows
            /\ showNotification("Table parsed successfully!")

\* the try block of parseTable once Parser.parse(input) has returned or
\* thrown
tryParsed(parsed) ==
  IF parsed.threw
    THEN /\ showNotification(
              IF copy = DIST THEN "U+274C Error: " \o parsed.message
              ELSE "Error parsing table: " \o parsed.message)
         /\ UNCHANGED <<model, hist>>
    ELSE /\ Save
         /\ headers' = parsed.headers
         /\ alignments' = parsed.alignments
         /\ rows' = parsed.rows
         /\ showNotification(
              IF copy = DIST THEN "U+2705 Table parsed successfully!"
              ELSE "Table parsed successfully!")

\* the try block of parseTable, run on the captured input
runParse(input) == tryParsed(parse(copy, input))

\* the body of App.parseTable(): dist/js/app.js defers the parse by
\* setTimeout(..., 50), part_001 parses at once
parseTableBody ==
  LET input == trim(inputText)
  IN  /\ UNCHANGED <<copy, isReorderMode, outputFormat, inputText>>
      /\ IF input = <<>>
           THEN /\ Fail("Please enter a table to parse")
                /\ UNCHANGED pendingParse
         ELSE IF copy = DIST
           THEN /\ pendingParse' = Append(pendingParse, input)
                /\ UNCHANGED <<model, hist, notification>>
         ELSE /\ runParse(input)
              /\ UNCHANGED pendingParse

\* App.parseTable() from the parse button or Ctrl+Enter
parseTable == parseTableBody /\ UNCHANGED debounceTimer

\* the callback of setTimeout in parseTable; timers fire in the order set
parseTimeout ==
  /\ pendingParse # <<>>
  /\ pendingParse' = Tail(pendingParse)
  /\ runParse(Head(pendingParse))
  /\ UNCHANGED <<copy, isReorderMode, outputFormat, inputText, debounceTimer>>

\* the user changes the textarea: the input listener (re)arms the debounce
inputEvent(text) ==
  /\ inputText' = text
  /\ debounceTimer' = TRUE
  /\ UNCHANGED <<copy, model, hist, isReorderMode, outputFormat,
                 notification, pendingParse>>

\* the debounce timer fires: this.parseTable()
debounceTimeout ==
  /\ debounceTimer
  /\ debounceTimer' = FALSE
  /\ parseTableBody

\* App.clearAll(); confirmed is the answer to confirm(...)
clearAll(confirmed) ==
  /\ UNCHANGED <<copy, debounceTimer, pendingParse>>
  /\ IF (trim(inputText) # <<>> \/ ~isEmpty \/ isValid) /\ ~confirmed
       THEN UNCHANGED <<model, hist, isReorderMode, outputFormat,
                        notification, inputText>>
       ELSE /\ inputText' = <<>>
            /\ reset
            /\ showNotification("All cleared")

toggleReorderMode ==
  /\ UNCHANGED <<copy, model, hist, outputFormat, ui>>
  /\ IF isEmpty
       THEN /\ showNotification("Please create a table first")
            /\ UNCHANGED isReorderMode
       ELSE /\ isReorderMode' = ~isReorderMode
            /\ showNotification(
                 IF ~isReorderMode
                   THEN (IF copy = DIST THEN "Drag rows or columns to reorder"
                                        ELSE "Reorder mode enabled")
                   ELSE "Edit mode enabled")

\* App.undo()
appUndo ==
  /\ UNCHANGED <<copy, isReorderMode, outputFormat, ui, history>>
  /\ historyIndex' = undo.historyIndex
  /\ Restore(undo.model)
  /\ showNotification(IF undo.returned THEN "Undone" ELSE "Nothing to undo")

\* App.redo()
appRedo ==
  /\ UNCHANGED <<copy, isReorderMode, outputFormat, ui, history>>
  /\ historyIndex' = redo.historyIndex
  /\ Restore(redo.model)
  /\ showNotification(IF redo.returned THEN "Redone" ELSE "Nothing to redo")

(***************************************************************************)
(* OutputGenerator and Analyzer.  generate is the text that                *)
(* OutputGenerator.generate() leaves in the output textarea, analyze the   *)
(* text Analyzer.analyze() leaves in the analysis element.                 *)
(***************************************************************************)
generate ==
  IF ~isValid THEN <<>>
  ELSE IF outputFormat = FORMAT.JSON THEN formatJSON(copy, headers, rows)
  ELSE IF outputFormat = FORMAT.HTML
    THEN formatHTML(copy, headers, alignments, rows)
  ELSE formatMarkdown(copy, headers, alignments, rows)

\* OutputGenerator.setFormat(format)
setFormat(format) ==
  /\ outputFormat' = IF format \in {FORMAT.MARKDOWN, FORMAT.JSON, FORMAT.HTML}
                       THEN format ELSE outputFormat
  /\ UNCHANGED <<copy, model, hist, ui, isReorderMode, notification>>

DigitChars == <<"0", "1", "2", "3", "4", "5", "6", "7", "8", "9">>

\* String(n) of a natural number
RECURSIVE toString(_)
toString(n) ==
  IF n < 10 THEN <<DigitChars[n + 1]>>
  ELSE toString(n \div 10) \o <<DigitChars[(n % 10) + 1]>>

TOTAL == <<"|", " ", "*", "*", "T", "o", "t", "a", "l", "*", "*", " ", "=", " ">>

analyze_CountAll ==
  IF Len(rows) = 0 \/ Len(headers) = 0 THEN <<>>
  ELSE TOTAL \o toString(Len(rows)) \o <<" ", "|">>
         \o Concat([i \in 1..(Len(headers) - 1) |->
                      <<" ">> \o toString(Len(rows)) \o <<"/">>
                        \o toString(Len(rows)) \o <<" ", "|">>])

analyze ==
  IF Len(rows) = 0 \/ Len(headers) = 0 THEN <<>>
  ELSE LET total == Len(rows)
           checked(i) ==
             Cardinality({r \in 1..total : isChecked(copy, rows[r][i])})
       IN  TOTAL \o toString(total) \o <<" ", "|">>
             \o Concat([i \in 1..(Len(headers) - 1) |->
                          <<" ">> \o toString(checked(i + 1)) \o <<"/">>
                            \o toString(total) \o <<" ", "|">>])

\* counts[value] || 0
countOf(counts, value) ==
  IF \E i \in 1..Len(counts) : counts[i].key = value
    THEN counts[CHOOSE i \in 1..Len(counts) : counts[i].key = value].value
    ELSE 0

\* Object.entries(counts).sort(([,a], [,b]) => b - a)[0]?.[0] || '': the sort
\* is stable, so the first of the entries with the largest count
firstLargest(entries) ==
  IF entries = <<>> THEN <<>>
  ELSE entries[CHOOSE i \in 1..Len(entries) :
                 /\ \A j \in 1..Len(entries) :
                      entries[j].value <= entries[i].value
                 /\ \A j \in 1..(i - 1) :
                      entries[j].value < entries[i].value].key

\* Analyzer.getMostCommonValue(values)
getMostCommonValue(values) ==
  LET counts[n \in 0..Len(values)] ==
        IF n = 0 THEN <<>>
        ELSE defineProperty(counts[n - 1], values[n],
                            countOf(counts[n - 1], values[n]) + 1)
  IN  firstLargest(ownProperties(counts[Len(values)]))

\* state.rows.map(row => row[columnIndex] || '')
columnValues(columnIndex) ==
  [r \in 1..Len(rows) |->
     IF columnIndex \in 0..(Len(rows[r]) - 1) THEN rows[r][columnIndex + 1]
     ELSE <<>>]

\* Analyzer.getColumnStats(columnIndex); columnName is undefined for an
\* index that is not one of headers
getColumnStats(columnIndex) ==
  IF columnIndex >= Len(headers)
    THEN [isNull |-> TRUE]
    ELSE [isNull |-> FALSE,
          columnName |-> IF columnIndex \in 0..(Len(headers) - 1)
                           THEN headers[columnIndex + 1] ELSE "undefined",
          totalCells |-> Len(rows),
          uniqueValues |->
            Cardinality({columnValues(columnIndex)[r] : r \in 1..Len(rows)}),
          emptyCells |->
            Cardinality({r \in 1..Len(rows) :
                           trim(columnValues(columnIndex)[r]) = <<>>}),
          mostCommon |-> getMostCommonValue(columnValues(columnIndex))]

\* the analyze button
analyzeClick ==
  /\ IF Len(rows) = 0 \/ Len(headers) = 0 THEN UNCHANGED notification
     ELSE showNotification("Table analyzed!")
  /\ UNCHANGED <<copy, model, hist, ui, isReorderMode, outputFormat>>

(***************************************************************************)
(* Input texts                                                             *)
(***************************************************************************)
\* the line "| c1 | c2 |"
spacedLine(cells) ==
  <<"|">> \o Concat([i \in 1..Len(cells) |-> <<" ">> \o cells[i] \o <<" ", "|">>])

\* the line "|c1|c2|"
tightLine(cells) ==
  <<"|">> \o Concat([i \in 1..Len(cells) |-> cells[i] \o <<"|">>])

DASHES == <<"-", "-", "-">>
YES == <<"y", "e", "s">>

\* "| A | B |\n|---|---|\n| 1 | yes |"
ScenarioA ==
  join(<<spacedLine(<<<<"A">>, <<"B">>>>),
         tightLine(<<DASHES, DASHES>>),
         spacedLine(<<<<"1">>, YES>>)>>, <<"\n">>)

\* "a|b": pipes but no separator row
NotATable == <<"a", "|", "b">>

(***************************************************************************)
(* Spec: the application driven by its user.  The bounds cap the size of   *)
(* the table, the number of history entries and of waiting timers.         *)
(***************************************************************************)
MaxCols == 2
MaxRows == 2
MaxHistory == 3
MaxPending == 1

Inputs == {ScenarioA, NotATable}
\* the text typed into a cell, which is normalized, and into a header,
\* which is escaped only
EditTexts == {<<"y">>}
HeaderEdits == {<<"&">>}

InitApp ==
  /\ headers = <<>>
  /\ rows = <<>>
  /\ alignments = <<>>
  /\ isReorderMode = FALSE
  /\ outputFormat = FORMAT.MARKDOWN
  /\ history = <<>>
  /\ historyIndex = -1
  /\ notification = ""
  /\ inputText = <<>>
  /\ debounceTimer = FALSE
  /\ pendingParse = <<>>

InitObs ==
  /\ pc = "run"
  /\ arg = <<>>
  /\ ret = <<>>
  /\ editCount = 0
  /\ undoCalls = 0

Init == copy \in Copies /\ InitApp /\ InitObs

Room == Len(history) < MaxHistory

AddColumn == Room /\ Len(headers) < MaxCols /\ addColumn /\ UNCHANGED obs
AddRow == Room /\ Len(rows) < MaxRows /\ addRow /\ UNCHANGED obs
RemoveColumn == Room /\ removeColumn /\ UNCHANGED obs
RemoveColumnAt ==
  \E index \in -1..MaxCols : Room /\ removeColumnAt(index) /\ UNCHANGED obs
RemoveRow == Room /\ removeRow /\ UNCHANGED obs
RemoveRowAt ==
  \E index \in -1..MaxRows : Room /\ removeRowAt(index) /\ UNCHANGED obs
SortRows == Room /\ sortRows /\ UNCHANGED obs
DuplicateRow ==
  \E index \in -1..MaxRows :
    Room /\ Len(rows) < MaxRows /\ duplicateRow(index) /\ UNCHANGED obs
InsertRowAfter ==
  \E index \in -1..MaxRows :
    Room /\ Len(rows) < MaxRows /\ insertRowAfter(index) /\ UNCHANGED obs
HeaderBlur ==
  \E index \in 0..(MaxCols - 1), text \in HeaderEdits :
    Room /\ headerBlur(index, text) /\ UNCHANGED obs
CellBlur ==
  \E rowIndex \in 0..(MaxRows - 1), colIndex \in 0..(MaxCols - 1),
     text \in EditTexts :
    Room /\ cellBlur(rowIndex, colIndex, text) /\ UNCHANGED obs
HandleDropColumn ==
  \E fromIndex \in 0..(MaxCols - 1), toIndex \in (0..(MaxCols - 1)) \cup {NaN} :
    Room /\ handleDropColumn(fromIndex, toIndex) /\ UNCHANGED obs
HandleDropRow ==
  \E fromIndex \in 0..(MaxRows - 1), toIndex \in (0..(MaxRows - 1)) \cup {NaN} :
    Room /\ handleDropRow(fromIndex, toIndex) /\ UNCHANGED obs
ParseTable ==
  Room /\ Len(pendingParse) < MaxPending /\ parseTable /\ UNCHANGED obs
ParseTimeout == Room /\ parseTimeout /\ UNCHANGED obs
InputEvent ==
  \E text \in Inputs \cup {<<>>} : inputEvent(text) /\ UNCHANGED obs
DebounceTimeout ==
  Room /\ Len(pendingParse) < MaxPending /\ debounceTimeout /\ UNCHANGED obs
ClearAll == \E confirmed \in BOOLEAN : clearAll(confirmed) /\ UNCHANGED obs
ToggleReorderMode == toggleReorderMode /\ UNCHANGED obs
Undo == appUndo /\ UNCHANGED obs
Redo == appRedo /\ UNCHANGED obs

Next ==
  \/ AddColumn \/ AddRow \/ RemoveColumn \/ RemoveColumnAt
  \/ RemoveRow \/ RemoveRowAt \/ SortRows \/ DuplicateRow \/ InsertRowAfter
  \/ HeaderBlur \/ CellBlur \/ HandleDropColumn \/ HandleDropRow
  \/ ParseTable \/ ParseTimeout \/ InputEvent \/ DebounceTimeout
  \/ ClearAll \/ ToggleReorderMode \/ Undo \/ Redo

Spec == Init /\ [][Next]_vars

(***************************************************************************)
(* SpecHistory: the history at its limit.  The table grows by one column   *)
(* per edit, so every snapshot differs from the others.  The driver runs   *)
(* edits, then undo() calls, then redo() calls, then edits again:          *)
(* pc is the phase, editCount the saveToHistory() calls so far, undoCalls  *)
(* the undo() calls and arg the redo() calls.                              *)
(***************************************************************************)
MaxEdits == 52
MaxUndoCalls == 51
MaxDepth == 2

InitHistory ==
  /\ copy \in Copies
  /\ InitApp
  /\ pc = "editing"
  /\ arg = 0
  /\ ret = <<>>
  /\ editCount = 0
  /\ undoCalls = 0

HistoryEdit ==
  /\ editCount < MaxEdits
  /\ \/ pc = "editing" /\ pc' = "editing"
     \/ /\ pc \in {"undoing", "redoing", "resumed"}
        /\ undoCalls <= MaxDepth
        /\ pc' = "resumed"
  /\ addColumn
  /\ editCount' = editCount + 1
  /\ UNCHANGED <<arg, ret, undoCalls>>

HistoryUndo ==
  /\ pc \in {"editing", "undoing"}
  /\ undoCalls < MaxUndoCalls
  /\ appUndo
  /\ pc' = "undoing"
  /\ undoCalls' = undoCalls + 1
  /\ UNCHANGED <<arg, ret, editCount>>

HistoryRedo ==
  /\ pc \in {"undoing", "redoing"}
  /\ undoCalls <= MaxDepth
  /\ arg < MaxDepth
  /\ appRedo
  /\ pc' = "redoing"
  /\ arg' = arg + 1
  /\ UNCHANGED <<ret, editCount, undoCalls>>

NextHistory == HistoryEdit \/ HistoryUndo \/ HistoryRedo

SpecHistory == InitHistory /\ [][NextHistory]_vars

(***************************************************************************)
(* SpecNormalizer: isChecked, isUnchecked and normalizeCheckValue applied  *)
(* to one value.  The values are the tokens and symbols of both copies     *)
(* and some other texts, in lower case, upper case or capitalised, with    *)
(* up to MaxPad white-space characters on each side.                       *)
(***************************************************************************)
MaxPad == 1

toUpperCase(s) ==
  [i \in 1..Len(s) |->
     IF \E u \in DOMAIN UpperToLower : UpperToLower[u] = s[i]
       THEN CHOOSE u \in DOMAIN UpperToLower : UpperToLower[u] = s[i]
       ELSE s[i]]

capitalise(s) ==
  IF s = <<>> THEN s ELSE toUpperCase(<<Head(s)>>) \o Tail(s)

BaseValues ==
  CheckedTokens(DIST) \cup CheckedTokens(PART1)
    \cup UncheckedTokens(DIST) \cup UncheckedTokens(PART1)
    \cup CheckSymbols \cup CrossSymbols
    \cup {<<>>, <<"2">>, <<"1", "0">>, <<"o", "n">>, <<"y", "e">>,
          <<"y", "e", "s", " ", "n", "o">>, <<"x">>, <<"U+FE0F">>}

RECURSIVE Pads(_)
Pads(n) ==
  IF n = 0 THEN {<<>>}
  ELSE Pads(n - 1) \cup {Append(p, w) : p \in Pads(n - 1), w \in {" ", "\n"}}

Values ==
  {l \o v \o r :
     v \in BaseValues \cup {toUpperCase(b) : b \in BaseValues}
             \cup {capitalise(b) : b \in BaseValues},
     l \in Pads(MaxPad), r \in Pads(MaxPad)}

InitNormalizer ==
  /\ copy \in Copies
  /\ InitApp
  /\ pc = "call"
  /\ arg \in Values
  /\ ret = <<>>
  /\ editCount = 0
  /\ undoCalls = 0

Classify ==
  /\ pc = "call"
  /\ pc' = "return"
  /\ ret' = [isChecked |-> isChecked(copy, arg),
             isUnchecked |-> isUnchecked(copy, arg),
             normalizeCheckValue |-> normalizeCheckValue(copy, arg)]
  /\ UNCHANGED <<copy, model, hist, ui, isReorderMode, outputFormat,
                 notification, arg, editCount, undoCalls>>

\* the formatter normalizes the cell again when the output is generated
Renormalize ==
  /\ pc = "return"
  /\ pc' = "again"
  /\ ret' = [ret EXCEPT
               !.normalizeCheckValue = normalizeCheckValue(copy, @)]
  /\ UNCHANGED <<copy, model, hist, ui, isReorderMode, outputFormat,
                 notification, arg, editCount, undoCalls>>

NextNormalizer == Classify \/ Renormalize

SpecNormalizer == InitNormalizer /\ [][NextNormalizer]_vars

(***************************************************************************)
(* SpecParse: the user types a table, parses it, pastes the Markdown       *)
(* output back into the input and parses again.  arg is the text typed     *)
(* first, ret the model the first parse produced.                          *)
(***************************************************************************)
MaxDataRows == 1

HeaderTexts == {<<"A">>, <<"B", "&">>}
CellTexts ==
  {<<>>, <<"1">>, YES, <<"x">>, <<"&">>, <<"<", "b", ">">>, <<"\"", "'">>}
Separators ==
  {DASHES, <<":", "-", "-", "-", ":">>, <<"-", "-", "-", ":">>}

RECURSIVE DataRows(_)
DataRows(n) ==
  IF n = 0 THEN {<<>>}
  ELSE DataRows(n - 1)
         \cup {Append(rs, <<c1, c2>>) :
                 rs \in DataRows(n - 1), c1 \in CellTexts, c2 \in CellTexts}

tableText(hs, seps, rs) ==
  join(<<spacedLine(hs), tightLine(seps)>>
         \o [r \in 1..Len(rs) |-> spacedLine(rs[r])], <<"\n">>)

ParseInputs ==
  {tableText(<<h, <<"B">>>>, <<sep, DASHES>>, rs) :
     h \in HeaderTexts, sep \in Separators, rs \in DataRows(MaxDataRows)}
  \cup {ScenarioA, NotATable, tightLine(<<DASHES>>)}

InitParse ==
  /\ copy \in Copies
  /\ InitApp
  /\ pc = "type"
  /\ arg = <<>>
  /\ ret = <<>>
  /\ editCount = 0
  /\ undoCalls = 0

TypeTable ==
  /\ pc = "type"
  /\ \E text \in ParseInputs : inputEvent(text) /\ arg' = text
  /\ pc' = "parse"
  /\ UNCHANGED <<ret, editCount, undoCalls>>

FirstParse ==
  /\ pc = "parse"
  /\ parseTable
  /\ pc' = IF pendingParse' # <<>> THEN "wait" ELSE "parsed"
  /\ UNCHANGED <<arg, ret, editCount, undoCalls>>

FirstTimeout ==
  /\ pc = "wait"
  /\ parseTimeout
  /\ pc' = "parsed"
  /\ UNCHANGED <<arg, ret, editCount, undoCalls>>

PasteOutput ==
  /\ pc = "parsed"
  /\ isValid
  /\ inputEvent(formatMarkdown(copy, headers, alignments, rows))
  /\ ret' = snapshot
  /\ pc' = "reparse"
  /\ UNCHANGED <<arg, editCount, undoCalls>>

SecondParse ==
  /\ pc = "reparse"
  /\ parseTable
  /\ pc' = IF pendingParse' # <<>> THEN "rewait" ELSE "reparsed"
  /\ UNCHANGED <<arg, ret, editCount, undoCalls>>

SecondTimeout ==
  /\ pc = "rewait"
  /\ parseTimeout
  /\ pc' = "reparsed"
  /\ UNCHANGED <<arg, ret, editCount, undoCalls>>

NextParse ==
  \/ TypeTable \/ FirstParse \/ FirstTimeout
  \/ PasteOutput \/ SecondParse \/ SecondTimeout

SpecParse == InitParse /\ [][NextParse]_vars

(***************************************************************************)
(* SpecInput: the user types a text and parses it, on the empty model or   *)
(* on the model Scenario A left.  arg is the text typed last, ret the      *)
(* model, history and cursor right before the parse was requested,         *)
(* editCount the number of parses finished.                                *)
(***************************************************************************)
\* Markdown texts: too few lines, no separator row, separator rows of one,
\* two and three hyphens, header and separator of different lengths
MarkdownInputs ==
  {tightLine(<<DASHES>>),
   tightLine(<<<<"A">>>>),
   NotATable,
   join(<<tightLine(<<<<"A">>>>), <<"x">>>>, <<"\n">>),
   join(<<tightLine(<<<<"A">>>>), tightLine(<<<<"-">>>>),
          tightLine(<<<<"x">>>>)>>, <<"\n">>),
   join(<<tightLine(<<<<"A">>>>), tightLine(<<<<"-", "-">>>>),
          tightLine(<<<<"x">>>>)>>, <<"\n">>),
   join(<<tightLine(<<<<"A">>>>), tightLine(<<<<":", "-", ":">>>>)>>,
        <<"\n">>),
   join(<<tightLine(<<<<"A">>>>), tightLine(<<DASHES>>),
          tightLine(<<<<"x">>>>)>>, <<"\n">>),
   join(<<tightLine(<<<<"A">>, <<"B">>>>), tightLine(<<DASHES>>)>>,
        <<"\n">>),
   join(<<<<"A">>, <<"-", "-", "-">>>>, <<"\n">>),
   ScenarioA}

\* "|A|\n|---|\n|<table|": a Markdown table with "<table" in a cell; the
\* tokenizer drops the unfinished tag
TableOpenInCell ==
  join(<<tightLine(<<<<"A">>>>), tightLine(<<DASHES>>),
         tightLine(<<TABLE_OPEN>>)>>, <<"\n">>)

\* "|A|\n|x|\n|---|": the only separator line is the third line
SeparatorThird ==
  join(<<tightLine(<<<<"A">>>>), tightLine(<<<<"x">>>>),
         tightLine(<<DASHES>>)>>, <<"\n">>)

InputTexts ==
  {<<>>, <<" ", "\n">>, UnfinishedTable, TableOpenInCell, SeparatorThird,
   SampleHtmlText}
    \cup MarkdownInputs
    \cup {htmlText(doc) : doc \in HtmlDocs}

InitInput ==
  /\ copy \in Copies
  /\ InitApp
  /\ pc = "type"
  /\ arg = <<>>
  /\ ret = <<>>
  /\ editCount = 0
  /\ undoCalls = 0

TypeInput ==
  /\ pc = "type"
  /\ \E text \in InputTexts : inputEvent(text) /\ arg' = text
  /\ pc' = "parse"
  /\ UNCHANGED <<ret, editCount, undoCalls>>

ParseInput ==
  /\ pc = "parse"
  /\ parseTable
  /\ ret' = [model |-> snapshot, history |-> history,
             historyIndex |-> historyIndex]
  /\ pc' = IF pendingParse' # <<>> THEN "wait" ELSE "parsed"
  /\ editCount' = IF pendingParse' # <<>> THEN editCount ELSE editCount + 1
  /\ UNCHANGED <<arg, undoCalls>>

InputTimeout ==
  /\ pc = "wait"
  /\ parseTimeout
  /\ pc' = "parsed"
  /\ editCount' = editCount + 1
  /\ UNCHANGED <<arg, ret, undoCalls>>

\* with Scenario A in the model, the user turns to the next text
NextInput ==
  /\ pc = "parsed"
  /\ editCount = 1
  /\ arg = ScenarioA
  /\ pc' = "type"
  /\ UNCHANGED <<copy, model, hist, ui, isReorderMode, outputFormat,
                 notification, arg, ret, editCount, undoCalls>>

NextOfInput == TypeInput \/ ParseInput \/ InputTimeout \/ NextInput

SpecInput == InitInput /\ [][NextOfInput]_vars

(***************************************************************************)
(* SpecOutput: the user types a Markdown table, parses it, may retype the  *)
(* first cell of a row, and then selects an output format or presses the   *)
(* analyze or the sort button.  Every handler ends with OutputGenerator.generate(), so *)
(* the output textarea holds generate in every state; after Analyze the    *)
(* analysis element holds analyze.                                         *)
(***************************************************************************)
MaxOutputRows == 2
MaxKeyEdits == 1

TASK1 == <<"T", "a", "s", "k", "1">>
TASK2 == <<"T", "a", "s", "k", "2">>
NAME == <<"N", "a", "m", "e">>
DONE == <<"D", "o", "n", "e">>
NO == <<"n", "o">>
BOLD == <<"*", "*">>

OutputRows ==
  {<<TASK1, YES>>, <<TASK2, NO>>, <<TASK1, <<"x">>>>, <<<<>>, YES>>,
   <<BOLD, NO>>, <<BOLD \o TASK1 \o BOLD, <<"0">>>>,
   <<<<"1", "0">>, <<"x">>>>, <<<<"2">>, <<"1">>>>, <<<<>>, NO>>}

AnalysisRows ==
  {<<<<"r">>, YES, YES>>, <<<<"s">>, NO, YES>>, <<<<"t">>, <<"x">>, <<"1">>>>}

RECURSIVE Tables(_, _)
Tables(rowSet, n) ==
  IF n = 0 THEN {<<>>}
  ELSE Tables(rowSet, n - 1)
         \cup {Append(rs, row) : rs \in Tables(rowSet, n - 1), row \in rowSet}

OutputInputs ==
  {tableText(hs, <<DASHES, DASHES>>, rs) :
     hs \in {<<NAME, DONE>>, <<BOLD \o NAME \o BOLD, BOLD \o DONE \o BOLD>>},
     rs \in Tables(OutputRows, MaxOutputRows)}
  \cup {tableText(<<NAME, <<"A">>, <<"B">>>>, <<DASHES, DASHES, DASHES>>, rs) :
          rs \in Tables(AnalysisRows, MaxOutputRows)}

\* texts typed into the first cell of a row
KeyEdits == {<<" ">>, BOLD \o TASK2}

Formats == {FORMAT.MARKDOWN, FORMAT.JSON, FORMAT.HTML, "xml"}

InitOutput ==
  /\ copy \in Copies
  /\ InitApp
  /\ pc = "type"
  /\ arg = <<>>
  /\ ret = <<>>
  /\ editCount = 0
  /\ undoCalls = 0

TypeOutput ==
  /\ pc = "type"
  /\ \E text \in OutputInputs : inputEvent(text) /\ arg' = text
  /\ pc' = "parse"
  /\ UNCHANGED <<ret, editCount, undoCalls>>

OutputParse ==
  /\ pc = "parse"
  /\ parseTable
  /\ pc' = IF pendingParse' # <<>> THEN "wait" ELSE "table"
  /\ UNCHANGED <<arg, ret, editCount, undoCalls>>

OutputTimeout ==
  /\ pc = "wait"
  /\ parseTimeout
  /\ pc' = "table"
  /\ UNCHANGED <<arg, ret, editCount, undoCalls>>

EditKey ==
  /\ pc = "table"
  /\ editCount < MaxKeyEdits
  /\ \E rowIndex \in 0..(MaxOutputRows - 1), text \in KeyEdits :
       cellBlur(rowIndex, 0, text)
  /\ editCount' = editCount + 1
  /\ UNCHANGED <<pc, arg, ret, undoCalls>>

SetFormat ==
  /\ pc \in {"type", "table"}
  /\ \E format \in Formats : setFormat(format)
  /\ pc' = "generated"
  /\ UNCHANGED <<arg, ret, editCount, undoCalls>>

Analyze ==
  /\ pc \in {"type", "table"}
  /\ analyzeClick
  /\ pc' = "analyzed"
  /\ UNCHANGED <<arg, ret, editCount, undoCalls>>

Sort ==
  /\ pc = "table"
  /\ sortRows
  /\ pc' = "sorted"
  /\ UNCHANGED <<arg, ret, editCount, undoCalls>>

ColumnStats ==
  /\ pc = "table"
  /\ \E columnIndex \in -1..Len(headers) :
       ret' = [columnIndex |-> columnIndex,
               stats |-> getColumnStats(columnIndex)]
  /\ pc' = "stats"
  /\ UNCHANGED <<copy, model, hist, ui, isReorderMode, outputFormat,
                 notification, arg, editCount, undoCalls>>

NextOutput ==
  \/ TypeOutput \/ OutputParse \/ OutputTimeout
  \/ EditKey \/ SetFormat \/ Analyze \/ Sort \/ ColumnStats

SpecOutput == InitOutput /\ [][NextOutput]_vars

(***************************************************************************)
(* SpecSanitize: the user types a Markdown or an HTML table whose header   *)
(* and cell texts hold the characters escapeHtml replaces, parses it, and  *)
(* retypes headers and cells with such texts.                              *)
(***************************************************************************)
MaxRawEdits == 2

RawInputs ==
  {tableText(<<h, <<"B">>>>, <<DASHES, DASHES>>, <<<<t, <<"x">>>>>>) :
     h \in RawTexts, t \in RawTexts}
    \cup {htmlText(doc) : doc \in RawDocs}

InitSanitize ==
  /\ copy \in Copies
  /\ InitApp
  /\ pc = "type"
  /\ arg = <<>>
  /\ ret = <<>>
  /\ editCount = 0
  /\ undoCalls = 0

TypeRaw ==
  /\ pc = "type"
  /\ \E text \in RawInputs : inputEvent(text) /\ arg' = text
  /\ pc' = "parse"
  /\ UNCHANGED <<ret, editCount, undoCalls>>

ParseRaw ==
  /\ pc = "parse"
  /\ parseTable
  /\ pc' = IF pendingParse' # <<>> THEN "wait" ELSE "table"
  /\ UNCHANGED <<arg, ret, editCount, undoCalls>>

RawTimeout ==
  /\ pc = "wait"
  /\ parseTimeout
  /\ pc' = "table"
  /\ UNCHANGED <<arg, ret, editCount, undoCalls>>

EditRawHeader ==
  /\ pc = "table"
  /\ editCount < MaxRawEdits
  /\ \E index \in 0..1, text \in RawTexts : headerBlur(index, text)
  /\ editCount' = editCount + 1
  /\ UNCHANGED <<pc, arg, ret, undoCalls>>

EditRawCell ==
  /\ pc = "table"
  /\ editCount < MaxRawEdits
  /\ \E colIndex \in 0..1, text \in RawTexts : cellBlur(0, colIndex, text)
  /\ editCount' = editCount + 1
  /\ UNCHANGED <<pc, arg, ret, undoCalls>>

\* the user focuses a header of the page rendered from the parsed model and
\* leaves it without typing: createHeaderCell has set th.textContent to the
\* stored header
BlurRawHeader ==
  /\ pc = "table"
  /\ editCount = 0
  /\ \E index \in 0..1 : headerBlur(index, headers[index + 1])
  /\ editCount' = editCount + 1
  /\ UNCHANGED <<pc, arg, ret, undoCalls>>

\* the same for a cell: createCell has set td.textContent to
\* normalizeCheckValue(content)
BlurRawCell ==
  /\ pc = "table"
  /\ editCount = 0
  /\ \E colIndex \in 0..1 :
       cellBlur(0, colIndex, normalizeCheckValue(copy, rows[1][colIndex + 1]))
  /\ editCount' = editCount + 1
  /\ UNCHANGED <<pc, arg, ret, undoCalls>>

NextSanitize ==
  \/ TypeRaw \/ ParseRaw \/ RawTimeout \/ EditRawHeader \/ EditRawCell
  \/ BlurRawHeader \/ BlurRawCell

SpecSanitize == InitSanitize /\ [][NextSanitize]_vars

(***************************************************************************)
(* SpecCursor: edits, undo(), redo() and "clear all" in any order.  arg is *)
(* the last call, pc tells whether an undo() returned true since the last  *)
(* saveToHistory() or reset(), editCount counts the edits and undoCalls    *)
(* is 1 once an undo() has returned true.                                  *)
(***************************************************************************)
MaxCursorEdits == 4

InitCursor ==
  /\ copy \in Copies
  /\ InitApp
  /\ pc = "saved"
  /\ arg = "init"
  /\ ret = <<>>
  /\ editCount = 0
  /\ undoCalls = 0

CursorEdit ==
  /\ editCount < MaxCursorEdits
  /\ \/ addColumn
     \/ addRow
     \/ removeColumn
     \/ \E text \in EditTexts : cellBlur(0, 0, text)
  /\ pc' = IF hist' # hist THEN "saved" ELSE pc
  /\ arg' = "edit"
  /\ editCount' = editCount + 1
  /\ UNCHANGED <<ret, undoCalls>>

CursorUndo ==
  /\ appUndo
  /\ pc' = IF undo.returned THEN "undone" ELSE pc
  /\ arg' = "undo"
  /\ undoCalls' = IF undo.returned THEN 1 ELSE undoCalls
  /\ UNCHANGED <<ret, editCount>>

CursorRedo ==
  /\ appRedo
  /\ arg' = "redo"
  /\ UNCHANGED <<pc, ret, editCount, undoCalls>>

CursorClear ==
  /\ clearAll(TRUE)
  /\ pc' = "saved"
  /\ arg' = "clear"
  /\ UNCHANGED <<ret, editCount, undoCalls>>

NextCursor == CursorEdit \/ CursorUndo \/ CursorRedo \/ CursorClear

SpecCursor == InitCursor /\ [][NextCursor]_vars

(***************************************************************************)
(* SpecAlias: the arrays of the program as objects.  Every array gets an   *)
(* identity, a number, when the code creates it.  ret.live holds the       *)
(* identities of the arrays the model is made of: fixed for headers,       *)
(* alignments and rows, row for the arrays inside rows.  ret.entries holds *)
(* the identities of the arrays of each history entry, ret.next is the     *)
(* identity of the next array created.  Which row array a removal takes    *)
(* out of rows is left open, the order of the row arrays is not kept.      *)
(* editCount counts the calls that create arrays; arg is the last call.    *)
(***************************************************************************)
MaxAliasCalls == 4

Arrays(first, count) == first..(first + count - 1)

InitAlias ==
  /\ copy \in Copies
  /\ InitApp
  /\ pc = "run"
  /\ arg = "init"
  /\ ret = [live |-> [fixed |-> Arrays(0, 3), row |-> {}],
            entries |-> <<>>, next |-> 3]
  /\ editCount = 0
  /\ undoCalls = 0

\* the history after saveToHistory() has pushed entry
pushedEntries(entry) ==
  LET pushed == Append(SubSeq(ret.entries, 1, historyIndex + 1), entry)
  IN  IF Len(pushed) > HistoryLimit THEN Tail(pushed) ELSE pushed

\* the handlers that change the arrays of the model in place, after
\* saveToHistory() where they call it
AliasEdit ==
  /\ editCount < MaxAliasCalls
  /\ \/ addColumn
     \/ addRow
     \/ removeColumn
     \/ removeRow
     \/ sortRows
     \/ duplicateRow(0)
     \/ insertRowAfter(0)
     \/ \E text \in HeaderEdits : headerBlur(0, text)
     \/ \E text \in EditTexts : cellBlur(0, 0, text)
     \/ handleDropColumn(0, 1)
     \/ handleDropRow(0, 1)
  /\ LET saved == hist' # hist
         entry == snapshotArrays(ret.live, ret.next, Len(rows))
         next == IF saved THEN ret.next + 3 + Len(rows) ELSE ret.next
         entries == IF saved THEN pushedEntries(entry) ELSE ret.entries
     IN  IF Len(rows') > Len(rows)
           THEN ret' = [live |-> [ret.live EXCEPT !.row = @ \cup {next}],
                        entries |-> entries, next |-> next + 1]
         ELSE IF Len(rows') < Len(rows)
           THEN \E removed \in ret.live.row :
                  ret' = [live |-> [ret.live EXCEPT !.row = @ \ {removed}],
                          entries |-> entries, next |-> next]
         ELSE ret' = [live |-> ret.live, entries |-> entries, next |-> next]
  /\ arg' = "edit"
  /\ editCount' = editCount + 1
  /\ UNCHANGED <<pc, undoCalls>>

AliasToggle ==
  /\ toggleReorderMode
  /\ UNCHANGED obs

AliasType ==
  /\ pc = "run"
  /\ editCount < MaxAliasCalls
  /\ \E text \in Inputs : inputEvent(text)
  /\ pc' = "typed"
  /\ UNCHANGED <<arg, ret, editCount, undoCalls>>

\* Parser.parse returns new arrays, which parseTable assigns to the model
\* next to its saveToHistory()
parsedArrays ==
  IF hist' # hist
    THEN [live |-> restoredArrays(ret.next, Len(rows')),
          entries |-> pushedEntries(snapshotArrays(
                        ret.live, ret.next + 3 + Len(rows'), Len(rows))),
          next |-> ret.next + 6 + Len(rows') + Len(rows)]
    ELSE ret

AliasParse ==
  /\ pc = "typed"
  /\ parseTable
  /\ ret' = IF pendingParse' # <<>> THEN ret ELSE parsedArrays
  /\ pc' = IF pendingParse' # <<>> THEN "wait" ELSE "run"
  /\ arg' = "parse"
  /\ editCount' = editCount + 1
  /\ UNCHANGED undoCalls

AliasTimeout ==
  /\ pc = "wait"
  /\ parseTimeout
  /\ ret' = parsedArrays
  /\ pc' = "run"
  /\ UNCHANGED <<arg, editCount, undoCalls>>

AliasUndo ==
  /\ editCount < MaxAliasCalls
  /\ appUndo
  /\ ret' = IF undo.returned
              THEN [ret EXCEPT !.live = restoredArrays(ret.next, Len(rows')),
                               !.next = @ + 3 + Len(rows')]
              ELSE ret
  /\ arg' = "undo"
  /\ editCount' = editCount + 1
  /\ undoCalls' = IF undo.returned THEN 1 ELSE undoCalls
  /\ UNCHANGED pc

AliasRedo ==
  /\ editCount < MaxAliasCalls
  /\ appRedo
  /\ ret' = IF redo.returned
              THEN [ret EXCEPT !.live = restoredArrays(ret.next, Len(rows')),
                               !.next = @ + 3 + Len(rows')]
              ELSE ret
  /\ arg' = "redo"
  /\ editCount' = editCount + 1
  /\ UNCHANGED <<pc, undoCalls>>

\* reset() assigns three new empty arrays and a new empty history
AliasClear ==
  /\ editCount < MaxAliasCalls
  /\ pc = "run"
  /\ clearAll(TRUE)
  /\ ret' = [live |-> restoredArrays(ret.next, 0), entries |-> <<>>,
             next |-> ret.next + 3]
  /\ arg' = "clear"
  /\ editCount' = editCount + 1
  /\ UNCHANGED <<pc, undoCalls>>

NextAlias ==
  \/ AliasEdit \/ AliasToggle \/ AliasType \/ AliasParse \/ AliasTimeout
  \/ AliasUndo \/ AliasRedo \/ AliasClear

SpecAlias == InitAlias /\ [][NextAlias]_vars

(***************************************************************************)
(* Properties                                                              *)
(***************************************************************************)
\* a step in which a mutating operation went through
Mutated ==
  /\ ~isReorderMode
  /\ \/ addColumn
     \/ Len(headers) > 0 /\ addRow
     \/ Len(headers) > 1 /\ removeColumn
     \/ Len(rows) > 0 /\ removeRow
     \/ Len(rows) > 1 /\ sortRows
     \/ \E index \in 0..(Len(rows) - 1) :
          duplicateRow(index) \/ insertRowAfter(index)
     \/ \E rowIndex \in 0..(MaxRows - 1), colIndex \in 0..(MaxCols - 1),
           text \in EditTexts : cellBlur(rowIndex, colIndex, text)

\* C1: after every successful addColumn, addRow, removeColumn, removeRow,
\* sortRows, duplicateRow, insertRowAfter or cell edit, one undo() returns
\* true and leaves the model as it was right before that operation.
C1_MutationIsUndoable ==
  [][Mutated => (undo'.returned /\ undo'.model = snapshot)]_vars

\* C2: a successful undo() followed at once by redo() brings back the model
\* as it was before the undo().
C2_RedoReversesUndo ==
  [][(appUndo /\ undo.returned)
       => (redo'.returned /\ redo'.model = snapshot)]_vars

\* C3: the history never holds more than 50 entries, whatever the number of
\* saveToHistory() calls and however undo and redo are mixed in.
C3_HistoryBounded == Len(history) <= HistoryLimit

C3_Witness ==
  /\ pc = "resumed"
  /\ editCount > HistoryLimit
  /\ Len(history) = HistoryLimit

\* C4: after editCount edits and then exactly min(50, editCount) calls of
\* undo(), the model is the oldest entry the history retains, and that
\* entry is not the original model when editCount > 50.
C4_UndoAllReachesOldest ==
  (pc = "undoing" /\ undoCalls = Min(HistoryLimit, editCount))
    => /\ snapshot = history[1]
       /\ editCount > HistoryLimit => Len(history[1].headers) > 0

\* C5: alignments and every row are as long as headers.
C5_ShapeInvariant ==
  /\ Len(alignments) = Len(headers)
  /\ \A r \in 1..Len(rows) : Len(rows[r]) = Len(headers)

C5_Witness ==
  /\ Len(headers) = MaxCols
  /\ Len(rows) > 0
  /\ notification \in {"Column added successfully", "Column added"}

\* a call of a mutating operation in a state where it has to fail
FailingCall ==
  /\ ~isReorderMode
  /\ \/ Len(headers) = 0 /\ addRow
     \/ Len(headers) <= 1 /\ removeColumn
     \/ \E index \in -1..MaxCols :
          /\ Len(headers) <= 1 \/ index < 0 \/ index >= Len(headers)
          /\ removeColumnAt(index)
     \/ Len(rows) = 0 /\ removeRow
     \/ \E index \in -1..MaxRows :
          /\ Len(rows) = 0 \/ index < 0 \/ index >= Len(rows)
          /\ removeRowAt(index)
     \/ Len(rows) < 2 /\ sortRows

\* C6: a failing addRow, removeColumn, removeColumnAt, removeRow,
\* removeRowAt or sortRows changes neither the model nor the history nor
\* the cursor.
C6_FailureChangesNothing ==
  [][FailingCall
       => UNCHANGED <<headers, rows, alignments, history, historyIndex>>]_vars

C6_Witness ==
  /\ notification = "Invalid row index"
  /\ Len(rows) > 0
  /\ Len(history) > 0

ParsedNotifications ==
  {"U+2705 Table parsed successfully!", "Table parsed successfully!"}

\* C7: parsing the Markdown serialization of a parsed model gives back the
\* same headers, rows and alignments.
C7_MarkdownRoundTrip ==
  pc = "reparsed" => (notification \in ParsedNotifications /\ snapshot = ret)

\* the classification the value normalizer is specified to make
CheckedBySpec(value) ==
  \/ toLowerCase(trim(value))
       \in {<<"y", "e", "s">>, <<"t", "r", "u", "e">>, <<"1">>, <<"y">>}
  \/ trim(value) \in CheckSymbols

UncheckedBySpec(value) ==
  \/ toLowerCase(trim(value))
       \in {<<"n", "o">>, <<"f", "a", "l", "s", "e">>, <<"0">>, <<"n">>}
  \/ trim(value) \in CrossSymbols

\* C8: isChecked is true exactly for yes, true, 1, y (trimmed, any case) and
\* the check symbols; isUnchecked exactly for no, false, 0, n and the cross
\* symbols.
C8_TokenSets ==
  pc = "return"
    => /\ ret.isChecked <=> CheckedBySpec(arg)
       /\ ret.isUnchecked <=> UncheckedBySpec(arg)

\* C9: Scenario A parses to headers [A, B], alignments [LEFT, LEFT] and rows
\* [[1, check mark]].
C9_ScenarioA ==
  (pc = "parsed" /\ arg = ScenarioA)
    => /\ headers = <<<<"A">>, <<"B">>>>
       /\ alignments = <<ALIGN.LEFT, ALIGN.LEFT>>
       /\ rows = <<<<<<"1">>, CHECK>>>>

\* C10: no value is both checked and unchecked.
C10_Disjoint == pc = "return" => ~(ret.isChecked /\ ret.isUnchecked)

C10_Witness ==
  /\ pc = "return"
  /\ ret.isChecked
  /\ arg # trim(arg)
  /\ arg # toLowerCase(arg)

\* C11: normalizing a value that is already normalized gives the same
\* value again.
C11_NormalizeIdempotent ==
  [][Renormalize => ret'.normalizeCheckValue = ret.normalizeCheckValue]_vars

C11_Witness ==
  /\ pc = "again"
  /\ ret.normalizeCheckValue # arg
  /\ ret.normalizeCheckValue = CROSS

\* C12: a parse that fails, for whatever reason, leaves headers, rows,
\* alignments, history and historyIndex as they were.
C12_ParseAllOrNothing ==
  [][((ParseInput \/ InputTimeout) /\ notification' \notin ParsedNotifications)
       => UNCHANGED <<headers, rows, alignments, history, historyIndex>>]_vars

C12_Witness ==
  /\ pc = "parsed"
  /\ editCount = 2
  /\ notification \notin ParsedNotifications
  /\ detectHTMLTable(arg)
  /\ Len(headers) = 2
  /\ Len(history) = 1

\* a separator cell as specified: optional colons around three or more
\* hyphens
SeparatorCellBySpec(cell) ==
  LET body == skipOne(cell, ":")
      n == Len(skipWhile(body, {"-"}))
      hyphens == Len(body) - n
      rest == SubSeq(body, hyphens + 1, Len(body))
  IN  hyphens >= 3 /\ rest \in {<<>>, <<":">>}

SeparatorRowBySpec(text) ==
  /\ includes(text, <<"|">>)
  /\ parseRow(text) # <<>>
  /\ \A i \in 1..Len(parseRow(text)) : SeparatorCellBySpec(parseRow(text)[i])

MarkdownBySpec(text) ==
  LET lines == nonBlankLines(text)
  IN  /\ \E i \in 1..Len(lines) : includes(lines[i], <<"|">>)
      /\ \E i \in 1..Len(lines) : SeparatorRowBySpec(lines[i])

FormatNotRecognized ==
  {"U+274C Error: Input does not appear to be a valid HTML or Markdown table",
   "Error parsing table: Input does not appear to be a valid HTML or Markdown table"}

\* C13: a text without a pipe, or without a separator row of three or more
\* hyphens, is not taken for a Markdown table: its parse fails with the
\* format-not-recognized error.
C13_SeparatorNeedsThreeHyphens ==
  (/\ pc = "parsed"
   /\ trim(arg) # <<>>
   /\ ~detectHTMLTable(arg)
   /\ ~MarkdownBySpec(arg))
    => notification \in FormatNotRecognized

MalformedTable ==
  {"U+274C Error: Markdown table must have at least a header and separator row",
   "Error parsing table: Markdown table must have at least a header and separator row"}

\* C14: a Markdown-looking text of fewer than two non-blank lines fails
\* with the error that a header and a separator row are needed.
C14_TooFewLinesIsMalformed ==
  (/\ pc = "parsed"
   /\ ~detectHTMLTable(arg)
   /\ MarkdownBySpec(arg)
   /\ Len(nonBlankLines(arg)) < 2)
    => notification \in MalformedTable

\* the documents whose last row carries a colspan of N >= 1 or none
SpanBySpec ==
  [colspan \in {<<>>, <<"2">>, <<"3">>, <<"4">>} |->
     IF colspan = <<>> THEN 1
     ELSE IF colspan = <<"2">> THEN 2
     ELSE IF colspan = <<"3">> THEN 3
     ELSE 4]

LastRow(doc) == doc.body[Len(doc.body)]

SpanDocs ==
  {doc \in HtmlDocs :
     /\ doc.body # <<>>
     /\ LastRow(doc) # <<>>
     /\ \A k \in 1..Len(LastRow(doc)) :
          LastRow(doc)[k].colspan \in DOMAIN SpanBySpec}

\* each cell's trimmed text followed by N-1 empty strings, cut or filled
\* up to the width
FlatBySpec(cells, width) ==
  LET flat == Concat([k \in 1..Len(cells) |->
                        <<trim(cells[k].textContent)>>
                          \o [i \in 1..(SpanBySpec[cells[k].colspan] - 1)
                                |-> <<>>]])
  IN  [i \in 1..width |-> IF i <= Len(flat) THEN flat[i] ELSE <<>>]

ParsedSpanDoc ==
  /\ pc = "parsed"
  /\ \E doc \in SpanDocs : htmlText(doc) = arg

TypedDoc == CHOOSE doc \in SpanDocs : htmlText(doc) = arg

\* C15 as stated: a cell of colspan N gives its trimmed text and N-1 empty
\* strings, the row is cut or filled up to the header count, and
\* <td colspan="2">x</td><td>y</td> over 3 headers gives [x, "", y].
C15_ColspanVerbatim ==
  ParsedSpanDoc
    => /\ rows # <<>>
       /\ rows[Len(rows)] = FlatBySpec(LastRow(TypedDoc), Len(headers))
       /\ \A r \in 1..Len(rows) : Len(rows[r]) = Len(headers)

\* C15, amended: a cell of colspan N gives its trimmed text, normalized and
\* escaped, and N-1 empty strings; the row is cut or filled up to the
\* header count, so <td colspan="2">x</td><td>y</td> over 3 headers gives
\* [x, "", check mark].
C15_ColspanNormalized ==
  ParsedSpanDoc
    => /\ rows # <<>>
       /\ rows[Len(rows)] =
            [i \in 1..Len(headers) |->
               escapeHtml(normalizeCheckValue(copy,
                 FlatBySpec(LastRow(TypedDoc), Len(headers))[i]))]
       /\ \A r \in 1..Len(rows) : Len(rows[r]) = Len(headers)

C15_Witness ==
  /\ pc = "parsed"
  /\ arg = htmlText(Doc(<<ThreeHeaders>>, TRUE,
                        <<<<SPAN(<<"2">>, <<"x">>), TD(<<"y">>)>>>>))
  /\ rows = <<<<<<"x">>, <<>>, CHECK>>>>

\* C16: in JSON generation a row whose first cell is empty after trimming
\* (empty or whitespace-only) contributes no key to the result, whatever
\* parse and cell edits produced the model
C16_BlankFirstCellSkipped ==
  (pc = "generated" /\ outputFormat = FORMAT.JSON)
    => LET result == jsonResult(copy, headers, rows)
       IN  \A i \in 1..Len(result) : trim(result[i].key) # <<>>

\* the rendering of a cell the JSON generator is specified to make
RenderedBySpec(value) ==
  IF CheckedBySpec(value) THEN CHECK
  ELSE IF UncheckedBySpec(value) THEN CROSS
  ELSE value

\* C17: for a model whose first-column values are non-empty, the JSON object
\* has one key per distinct first-column value, equal to that value; the key
\* of a value maps every header except the first, by its text, to the cell of
\* the last row with that value, checked and unchecked cells rendered as the
\* check mark and the cross, other cells verbatim.
C17_KeysAreFirstColumnValues ==
  (/\ pc = "generated"
   /\ outputFormat = FORMAT.JSON
   /\ isValid
   /\ \A r \in 1..Len(rows) : rows[r][1] # <<>>)
    => LET result == jsonResult(copy, headers, rows)
           values == {rows[r][1] : r \in 1..Len(rows)}
       IN  /\ {result[i].key : i \in 1..Len(result)} = values
           /\ Len(result) = Cardinality(values)
           /\ \A i \in 1..Len(result) :
                LET last == CHOOSE r \in 1..Len(rows) :
                              /\ rows[r][1] = result[i].key
                              /\ \A q \in (r + 1)..Len(rows) :
                                   rows[q][1] # result[i].key
                    object == result[i].value
                IN  /\ Len(object) = Len(headers) - 1
                    /\ \A h \in 2..Len(headers) :
                         \E k \in 1..Len(object) :
                           /\ object[k].key = headers[h]
                           /\ object[k].value = RenderedBySpec(rows[last][h])

\* C18: for a model without headers, or whose alignments do not match its
\* headers, the generated output is the empty string when the selected
\* format is Markdown or HTML, and {} when it is JSON
C18_InvalidModelOutput ==
  (pc = "generated" /\ ~isValid)
    => generate = IF outputFormat = FORMAT.JSON THEN <<"{", "}">> ELSE <<>>

SORTED == "Rows sorted alphabetically"

IsPermutation(a, b) ==
  /\ Len(a) = Len(b)
  /\ \A i \in 1..Len(a) :
       Cardinality({j \in 1..Len(a) : a[j] = a[i]})
         = Cardinality({j \in 1..Len(b) : b[j] = a[i]})

\* the rows whose first-column value is empty, in their order
EmptyKeyed(rs) == filter(rs, {i \in 1..Len(rs) : rs[i][1] = <<>>})

\* C19: after a sortRows() that sorted, the rows are a permutation of the
\* rows before, every row with an empty first-column value comes after all
\* rows with a non-empty one, and the rows with an empty first-column value
\* keep their relative order
C19_SortPutsEmptyLast ==
  [][(Sort /\ notification' = SORTED)
       => /\ IsPermutation(rows, rows')
          /\ \A i, j \in 1..Len(rows') :
               (rows'[i][1] = <<>> /\ rows'[j][1] # <<>>) => j < i
          /\ EmptyKeyed(rows') = EmptyKeyed(rows)]_vars

\* the decimal numeral of a count below ten
Numeral(n) == <<<<"0">>, <<"1">>, <<"2">>, <<"3">>, <<"4">>, <<"5">>, <<"6">>,
                <<"7">>, <<"8">>, <<"9">>>>[n + 1]

\* the number of rows whose cell in column i is checked
CheckedInColumn(i) ==
  Cardinality({r \in 1..Len(rows) : isChecked(copy, rows[r][i])})

TotalLineBySpec ==
  <<"|", " ", "*", "*", "T", "o", "t", "a", "l", "*", "*", " ", "=", " ">> \o Numeral(Len(rows)) \o <<" ", "|">>
    \o Concat([i \in 1..(Len(headers) - 1) |->
                 <<" ">> \o Numeral(CheckedInColumn(i + 1)) \o <<"/">>
                   \o Numeral(Len(rows)) \o <<" ", "|">>])

\* C20: for a model with at least one header and R >= 1 rows, analyze()
\* writes the line | **Total** = R | followed, for each column after the
\* first, by k/R |, k the number of rows whose cell in the column is checked
\* per isChecked; for an empty model it writes the empty text
C20_TotalLine ==
  pc = "analyzed"
    => /\ (Len(headers) >= 1 /\ Len(rows) >= 1) => analyze = TotalLineBySpec
       /\ isEmpty => analyze = <<>>

\* headers [Name, A, B] with A = [yes, no] and B = [yes, yes]
C20_Witness ==
  /\ pc = "analyzed"
  /\ headers = <<NAME, <<"A">>, <<"B">>>>
  /\ rows = <<<<<<"r">>, CHECK, CHECK>>, <<<<"s">>, CROSS, CHECK>>>>
  /\ analyze = <<"|", " ", "*", "*", "T", "o", "t", "a", "l", "*", "*", " ", "=", " ", "2", " ", "|", " ", "1", "/", "2", " ", "|", " ", "2", "/", "2", " ", "|">>

\* C21: removeRowAt(index) on a model without rows reports 'No rows to
\* remove' for every index; 'Invalid row index' is reported only when a row
\* exists and the index is out of bounds
C21_NoRowsBeforeInvalidIndex ==
  [][\A index \in -1..MaxRows :
       (~isReorderMode /\ removeRowAt(index))
         => /\ Len(rows) = 0 => notification' = "No rows to remove"
            /\ notification' = "Invalid row index"
                 => (Len(rows) >= 1 /\ (index < 0 \/ index >= Len(rows)))]_vars

\* C22: in every state reached through the mutation operations, a model
\* without headers has no rows
C22_NoRowsWithoutColumns == Len(headers) = 0 => Len(rows) = 0

RawCharacters == {"<", ">", "\"", "'"}

Sanitized(str) == \A i \in 1..Len(str) : str[i] \notin RawCharacters

\* C24: no header and no cell of the live model, entered by a Markdown or
\* an HTML parse or by a header or cell edit, holds one of the raw
\* characters < > " '
C24_ModelIsSanitized ==
  /\ \A i \in 1..Len(headers) : Sanitized(headers[i])
  /\ \A r \in 1..Len(rows) : \A i \in 1..Len(rows[r]) : Sanitized(rows[r][i])

\* an HTML table with <b> in a header was parsed and a cell retyped as "'
C24_Witness ==
  /\ arg \in {htmlText(doc) : doc \in RawDocs}
  /\ editCount > 0
  /\ \E i \in 1..Len(headers) : headers[i] = <<"&", "l", "t", ";", "b", "&", "g", "t", ";">>
  /\ \E r \in 1..Len(rows) : \E i \in 1..Len(rows[r]) :
       rows[r][i] = <<"&", "q", "u", "o", "t", ";", "&", "#", "3", "9", ";">>

\* C25: redo() with no undo() that returned true since the last
\* saveToHistory() or reset() returns false and leaves headers, rows,
\* alignments, the history and historyIndex as they were.
C25_RedoWithoutUndoIsNoOp ==
  [][(CursorRedo /\ pc = "saved")
       => /\ ~redo.returned
          /\ notification' = "Nothing to redo"
          /\ UNCHANGED <<headers, rows, alignments, history, historyIndex>>]_vars

C25_Witness ==
  /\ arg = "redo"
  /\ pc = "saved"
  /\ undoCalls = 1
  /\ Len(history) > 1
  /\ notification = "Nothing to redo"

\* C26: saveToHistory() drops the entries after the cursor and appends the
\* model as it is at the call, dropping the oldest entry beyond 50; the
\* cursor is then on the last entry, that entry is the model at the call, and
\* redo() returns false, also after an edit that follows an undo().
C26_SaveKeepsHistoryLinear ==
  [][HistoryEdit
       => LET kept == SubSeq(history, 1, historyIndex + 1)
          IN  /\ history' = IF Len(kept) = HistoryLimit
                              THEN Append(Tail(kept), snapshot)
                              ELSE Append(kept, snapshot)
              /\ historyIndex' = Len(history') - 1
              /\ history'[historyIndex' + 1] = snapshot
              /\ ~redo'.returned]_vars

C26_Witness ==
  /\ pc = "resumed"
  /\ undoCalls > 0
  /\ editCount > HistoryLimit + 1
  /\ Len(history) = HistoryLimit
  /\ historyIndex = Len(history) - 1
  /\ Len(history[1].headers) > 0

\* C27: undo() with historyIndex <= 0 returns false and leaves the model, the
\* history and the cursor as they were; otherwise it returns true, moves the
\* cursor back by one, makes the model the entry now at the cursor and
\* leaves the history as it was.
C27_UndoStepsBackByOne ==
  [][CursorUndo
       => IF historyIndex <= 0
            THEN /\ ~undo.returned
                 /\ notification' = "Nothing to undo"
                 /\ UNCHANGED <<headers, rows, alignments, history,
                                historyIndex>>
            ELSE /\ undo.returned
                 /\ notification' = "Undone"
                 /\ historyIndex' = historyIndex - 1
                 /\ snapshot' = history'[historyIndex' + 1]
                 /\ history' = history]_vars

C27_Witness ==
  /\ arg = "undo"
  /\ notification = "Undone"
  /\ historyIndex = Len(history) - 2
  /\ snapshot = history[historyIndex + 1]
  /\ snapshot # history[historyIndex + 2]

\* C28: the model never shares a header, alignment or row array with a
\* history entry, and no operation changes an entry the history holds: a
\* step leaves the history as it was, empties it, or keeps the entries up to
\* the cursor and appends one, dropping the oldest beyond 50.
NoSharedArrays ==
  \A i \in 1..Len(ret.entries) :
    ret.entries[i] \cap (ret.live.fixed \cup ret.live.row) = {}

EntriesKept ==
  \/ history' = history
  \/ history' = <<>>
  \/ /\ Len(history') > 0
     /\ LET pushed == Append(SubSeq(history, 1, historyIndex + 1),
                             history'[Len(history')])
        IN  history' = IF Len(pushed) > HistoryLimit THEN Tail(pushed)
                       ELSE pushed

C28_SnapshotsAreImmutable == [][NoSharedArrays' /\ EntriesKept]_vars

C28_Witness ==
  /\ arg = "edit"
  /\ undoCalls = 1
  /\ Len(history) >= 2
  /\ Len(ret.entries) = Len(history)
  /\ Len(rows) > 0
  /\ Cardinality(ret.live.row) = Len(rows)
  /\ history[historyIndex + 1] # snapshot

\* the text holds "<table" and, somewhere behind it, "</table>", in any case
TableSpanBySpec(text) ==
  LET low == toLowerCase(text)
  IN  \E i \in 1..Len(low), j \in 1..Len(low) :
        /\ i + Len(TABLE_OPEN) <= j
        /\ SubSeq(low, i, i + Len(TABLE_OPEN) - 1) = TABLE_OPEN
        /\ SubSeq(low, j, j + Len(TABLE_CLOSE) - 1) = TABLE_CLOSE

\* C29: a text is detected as HTML exactly when it holds a "<table ...
\* </table>" span; a text with "<table" and no "</table>" is parsed as
\* Markdown when it is a Markdown table, and fails with the
\* format-not-recognized error otherwise.
C29_TableSpanDecides ==
  (pc = "parsed" /\ trim(arg) # <<>>)
    => /\ detectHTMLTable(trim(arg)) <=> TableSpanBySpec(arg)
       /\ (includes(toLowerCase(arg), TABLE_OPEN) /\ ~TableSpanBySpec(arg))
            => IF detectMarkdownTable(trim(arg))
                 THEN /\ notification \in ParsedNotifications
                      /\ rows = <<<<escapeHtml(TABLE_OPEN)>>>>
                 ELSE notification \in FormatNotRecognized

\* the alignment the header cell is specified to get: the class first, then
\* the inline text-align, then the align attribute, LEFT otherwise
AlignBySpec(cell) ==
  IF "text-center" \in cell.classList THEN ALIGN.CENTER
  ELSE IF "text-right" \in cell.classList THEN ALIGN.RIGHT
  ELSE IF cell.textAlign = "center" THEN ALIGN.CENTER
  ELSE IF cell.textAlign = "right" THEN ALIGN.RIGHT
  ELSE IF cell.align = "center" THEN ALIGN.CENTER
  ELSE IF cell.align = "right" THEN ALIGN.RIGHT
  ELSE ALIGN.LEFT

\* C30: the alignment of an HTML header cell is decided by its class
\* text-center or text-right, without such a class by its inline text-align,
\* without either by its align attribute, and is LEFT otherwise.
C30_AlignmentPriority ==
  \A doc \in AlignDocs :
    (pc = "parsed" /\ arg = htmlText(doc))
      => /\ notification \in ParsedNotifications
         /\ alignments = <<AlignBySpec(doc.head[1][1]), ALIGN.LEFT>>

\* the place, among the rows of the table, of the row specified to be the
\* header row: the first row of the head, else the first row with a th,
\* else the first row
HeaderPlaceBySpec(doc) ==
  LET withTh == {r \in 1..Len(doc.body) :
                   \E k \in 1..Len(doc.body[r]) : doc.body[r][k].tag = "th"}
  IN  IF doc.head # <<>> THEN 1
      ELSE IF withTh # {} THEN CHOOSE r \in withTh : \A q \in withTh : r <= q
      ELSE 1

\* the texts of the cells of the rows other than the header row
DataRowsBySpec(doc) ==
  LET trs == doc.head \o doc.body
      others == filter(trs, (1..Len(trs)) \ {HeaderPlaceBySpec(doc)})
  IN  [r \in 1..Len(others) |->
         [k \in 1..Len(others[r]) |-> others[r][k].textContent]]

\* C31: the row taken as header row of an HTML table is not among the data
\* rows and no other row is dropped: the rows of the model are the rows of
\* the table other than the header row, whatever the layout.
C31_HeaderRowIsNotData ==
  \A doc \in LayoutDocs :
    (pc = "parsed" /\ arg = htmlText(doc))
      => /\ notification \in ParsedNotifications
         /\ rows = DataRowsBySpec(doc)

\* the number of rows that hold value in the column
Occurrences(columnIndex, value) ==
  Cardinality({r \in 1..Len(rows) : rows[r][columnIndex + 1] = value})

\* the most frequent value of the column, the one met first from the top
\* among the values of the same frequency
MostCommonBySpec(columnIndex) ==
  IF rows = <<>> THEN <<>>
  ELSE rows[CHOOSE r \in 1..Len(rows) :
              /\ \A q \in 1..Len(rows) :
                   Occurrences(columnIndex, rows[q][columnIndex + 1])
                     <= Occurrences(columnIndex, rows[r][columnIndex + 1])
              /\ \A q \in 1..(r - 1) :
                   Occurrences(columnIndex, rows[q][columnIndex + 1])
                     < Occurrences(columnIndex, rows[r][columnIndex + 1])]
         [columnIndex + 1]

\* C32: getColumnStats returns nothing for an index below 0 or not below
\* headers.length; for an index of a column, mostCommon is the most frequent
\* value of the column, the first one met from the top among equals.
C32_ColumnStats ==
  pc = "stats"
    => IF ret.columnIndex \in 0..(Len(headers) - 1)
         THEN /\ ~ret.stats.isNull
              /\ ret.stats.mostCommon = MostCommonBySpec(ret.columnIndex)
         ELSE ret.stats.isNull

\* the columns of a table: header, alignment and the cells of every row
Triples(hs, as, rs) ==
  [i \in 1..Len(hs) |->
     [header |-> hs[i], alignment |-> as[i],
      cells |-> [r \in 1..Len(rs) |-> rs[r][i]]]]

\* seq without its element at place from (counted from 0)
Without(seq, from) ==
  [i \in 1..(Len(seq) - 1) |-> IF i <= from THEN seq[i] ELSE seq[i + 1]]

\* seq with its element at place from taken out and put at place to
MovedBySpec(seq, from, to) ==
  [i \in 1..Len(seq) |->
     IF i = to + 1 THEN seq[from + 1]
     ELSE IF i < to + 1 THEN Without(seq, from)[i]
     ELSE Without(seq, from)[i - 1]]

CursorInRange ==
  /\ -1 <= historyIndex
  /\ historyIndex <= Len(history) - 1
  /\ historyIndex = -1 <=> history = <<>>

\* C34: historyIndex is at least -1 and at most history.length - 1, and is
\* -1 exactly when the history is empty; after "clear all" the history is
\* empty, historyIndex is -1 and undo() and redo() return false.
C34_CursorInvariant ==
  [][/\ CursorInRange
     /\ CursorInRange'
     /\ CursorClear
          => /\ history' = <<>>
             /\ historyIndex' = -1
             /\ ~undo'.returned
             /\ ~redo'.returned]_vars

C34_Witness ==
  /\ arg = "clear"
  /\ undoCalls = 1
  /\ editCount >= 2
  /\ history = <<>>
  /\ historyIndex = -1

\* a call of one of the operations that edit the table
GatedCall ==
  \/ addColumn \/ addRow \/ removeColumn \/ removeRow \/ sortRows
  \/ \E index \in -1..MaxCols : removeColumnAt(index)
  \/ \E index \in -1..MaxRows :
       removeRowAt(index) \/ duplicateRow(index) \/ insertRowAfter(index)
  \/ \E index \in 0..(MaxCols - 1), text \in HeaderEdits :
       headerBlur(index, text)
  \/ \E rowIndex \in 0..(MaxRows - 1), colIndex \in 0..(MaxCols - 1),
        text \in EditTexts : cellBlur(rowIndex, colIndex, text)

\* C35: in reorder mode addColumn, addRow, removeColumn, removeColumnAt,
\* removeRow, removeRowAt, sortRows, duplicateRow, insertRowAfter and the
\* header and cell edits leave headers, rows, alignments, history and
\* historyIndex as they are; only a drop, a parse, undo, redo and "clear
\* all" change them in that mode.
C35_ReorderModeGatesEdits ==
  [][isReorderMode
       => /\ GatedCall
               => UNCHANGED <<headers, rows, alignments, history,
                              historyIndex>>
          /\ <<headers, rows, alignments, history, historyIndex>>'
                 # <<headers, rows, alignments, history, historyIndex>>
               => \/ HandleDropColumn \/ HandleDropRow
                  \/ ParseTable \/ ParseTimeout \/ DebounceTimeout
                  \/ Undo \/ Redo \/ ClearAll]_vars

C35_Witness ==
  /\ copy = DIST
  /\ isReorderMode
  /\ notification = "Exit reorder mode first"
  /\ rows # <<>>
  /\ Len(history) > 0

\* C36: in every state in reorder mode toggleReorderMode() leaves reorder
\* mode, also after an undo() made in reorder mode.
C36_ReorderModeCanBeLeft ==
  [][(isReorderMode /\ toggleReorderMode) => ~isReorderMode']_vars

\* C37: after "clear all", and before the user types, parses or edits
\* again, the model and the history stay empty: the debounce timer and the
\* deferred callback of a parseTable() called before the clear neither
\* fill the model nor push a history entry.
C37_ClearIsNotUndoneByStaleParse ==
  [][(/\ notification = "All cleared"
      /\ inputText = <<>>
      /\ isEmpty
      /\ history = <<>>
      /\ ParseTimeout \/ DebounceTimeout)
       => /\ headers' = <<>>
          /\ rows' = <<>>
          /\ alignments' = <<>>
          /\ history' = <<>>]_vars

\* C38: leaving a header or a cell without changing its text leaves
\* headers, rows and alignments as they are, whatever the stored text.
C38_BlurWithoutChangeIsNoOp ==
  [][(BlurRawHeader \/ BlurRawCell)
       => UNCHANGED <<headers, rows, alignments>>]_vars

\* a cell of hyphens with an optional colon before and behind
HyphenCell(cell) ==
  LET body == IF cell # <<>> /\ Head(cell) = ":" THEN Tail(cell) ELSE cell
      core == IF body # <<>> /\ body[Len(body)] = ":"
                THEN SubSeq(body, 1, Len(body) - 1) ELSE body
  IN  core # <<>> /\ \A i \in 1..Len(core) : core[i] = "-"

\* C39: when the Markdown parse succeeds, the second non-blank line of the
\* text is a separator row, and no row of the model is a separator row.
C39_SeparatorIsSecondLine ==
  (/\ pc = "parsed"
   /\ ~detectHTMLTable(trim(arg))
   /\ notification \in ParsedNotifications)
    => /\ LET second == parseRow(nonBlankLines(trim(arg))[2])
          IN  second # <<>> /\ \A i \in 1..Len(second) : HyphenCell(second[i])
       /\ \A r \in 1..Len(rows) : \E i \in 1..Len(rows[r]) :
            ~HyphenCell(rows[r][i])

\* C40: both copies classify every cell of the model alike with isChecked
\* and isUnchecked, and sortRows leaves the rows in the order either copy's
\* sortRows gives.
C40_CopiesAgree ==
  [][/\ \A r \in 1..Len(rows) : \A i \in 1..Len(rows[r]) :
          /\ isChecked(DIST, rows[r][i]) <=> isChecked(PART1, rows[r][i])
          /\ isUnchecked(DIST, rows[r][i]) <=> isUnchecked(PART1, rows[r][i])
     /\ Sort => /\ rows' = sortedRows(DIST, rows)
                /\ rows' = sortedRows(PART1, rows)]_vars

====
